---- MODULE Spec2Model ----
(***************************************************************************)
(* Model of the execution core of spectrum-offchain-multiplatform:         *)
(*   - the persistent state index (EntityRepoRocksDB, rocksdb.rs),         *)
(*   - the resolver and the cache that sit on top of it,                   *)
(*   - the Executor stream (execution_engine/mod.rs) and the `then`        *)
(*     driver of execution_part_stream that submits its transactions,      *)
(*   - the matching kernel TemporalLiquidityBook::attempt with its         *)
(*     fragment and pool stores.                                           *)
(*                                                                         *)
(* Specifications:                                                         *)
(*   Spec        the Executor polled on an arbitrary schedule, feedback    *)
(*               delivered at arbitrary times;                             *)
(*   SpecStream  the Executor driven by execution_part_stream, and         *)
(*               SpecStreamFair, the same under fair scheduling;           *)
(*   SpecIndex   arbitrary sequences of index operations;                  *)
(*   SpecBook    a TemporalLiquidityBook (temporal.rs, pooled.rs) under    *)
(*               arbitrary effects and attempts;                           *)
(*   SpecFill    fill_from_fragment and fill_from_pool on arbitrary        *)
(*               inputs;                                                   *)
(*   SpecPools   the pool store under arbitrary sequences of its           *)
(*               operations;                                               *)
(*   SpecPair    PairId::canonical on arbitrary asset classes;             *)
(*   SpecSync    Executor::sync_book on arbitrary updates.                 *)
(***************************************************************************)
EXTENDS Integers, Sequences, FiniteSets, TLC

VARIABLES
    index,            \* Executor.index: the state index (rocksdb key spaces)
    cache,            \* Executor.cache: StableId -> Option<Bundled>
    multi_book,       \* Executor.multi_book: Pair -> book
    pending_effects,  \* Executor.pending_effects: Option<(Pair, Vec<(entity, bearer)>)>
    focus_set,        \* Executor.focus_set: BTreeSet<Pair>
    feedback,         \* the mpsc feedback channel: messages sent and not yet received
    up_ready,         \* whether Executor.upstream has an item ready
    inflight,         \* transactions emitted whose submit result is not yet on the channel
    then_fut,         \* the future of the `then` combinator in execution_part_stream
    ingested,         \* number of upstream items taken so far
    awaiting,         \* pairs of the emitted transactions whose feedback is not yet taken, oldest first (observation only)
    crashed,          \* "no", or the panic the executor died of (unreachable!() / expect)
    obs,              \* what the last iteration of poll_next did (observation only)
    live_preds,       \* per id: predicted versions put and neither invalidated nor eliminated (observation only)
    idx_obs,          \* the last index operation applied (observation only)
    tlb,              \* a TemporalLiquidityBook: fragmented_liquidity, pooled_liquidity, execution_cap
    att,              \* what the last call of TemporalLiquidityBook::attempt did (observation only)
    call              \* the last call of a function exercised on its own: its arguments and its result

vars == <<index, cache, multi_book, pending_effects, focus_set, feedback, up_ready,
          inflight, then_fut, ingested, awaiting, crashed, obs, live_preds, idx_obs,
          tlb, att, call>>

book_vars == <<tlb, att>>

exec_vars == <<cache, multi_book, pending_effects, focus_set, feedback, up_ready,
               inflight, then_fut, ingested, awaiting, crashed, obs>>

----------------------------------------------------------------------------
(* Option<T> *)

None == [tag |-> "None"]

Some(v) == [tag |-> "Some", val |-> v]

----------------------------------------------------------------------------
(* The universe of entities.  A Version (an output reference) belongs to   *)
(* exactly one StableId; the kind and the pair of an entity are fixed by   *)
(* its StableId.                                                           *)

\* StableId of every Version
VerId == <<1, 1, 1, 2, 2, 3, 3, 4, 4>>

Versions == DOMAIN VerId

Ids == {VerId[v] : v \in Versions}

KindOfId == <<"Ask", "Bid", "Ask", "Pool">>

PairOfId == <<1, 1, 2, 2>>

Pairs == {PairOfId[i] : i \in Ids}

\* the versions of one id
VersionsOf(id) == {v \in Versions : VerId[v] = id}

\* the snapshot of VerId[v] at version v
Entity(v) == [id |-> VerId[v], ver |-> v, kind |-> KindOfId[VerId[v]]]

stable_id(e) == e.id

version(e) == e.ver

\* Bundled(entity, bearer): the bearer is the ledger output of that version
Bundled(e) == [entity |-> e, bearer |-> e.ver]

----------------------------------------------------------------------------
(* The state index: EntityRepoRocksDB.  One function per key prefix.       *)

EmptyIndex ==
    [state       |-> [v \in Versions |-> None],   \* "state"
     link        |-> [v \in Versions |-> None],   \* "prediction:link"
     predicted   |-> [i \in Ids |-> None],        \* "predicted:last"
     confirmed   |-> [i \in Ids |-> None],        \* "confirmed:last"
     unconfirmed |-> [i \in Ids |-> None]]        \* "unconfirmed:last"

get_prediction_predecessor(ix, sid) == ix.link[sid]

get_state(ix, sid) == ix.state[sid]

get_last_predicted(ix, id) ==
    IF ix.predicted[id] = None THEN None
    ELSE LET sid == ix.predicted[id].val IN
         IF ix.link[sid] # None THEN ix.state[sid] ELSE None

get_last_confirmed(ix, id) ==
    IF ix.confirmed[id] = None THEN None
    ELSE ix.state[ix.confirmed[id].val]

get_last_unconfirmed(ix, id) ==
    IF ix.unconfirmed[id] = None THEN None
    ELSE ix.state[ix.unconfirmed[id].val]

\* a put_predicted that stores state_id_bytes, the version of the entity
\* itself, under the link key
put_predicted_self_link(ix, entity, prev_state_id) ==
    [ix EXCEPT !.state[version(entity)] = Some(entity),
               !.predicted[stable_id(entity)] = Some(version(entity)),
               !.link[version(entity)] =
                   IF prev_state_id # None THEN Some(version(entity)) ELSE @]

\* prev_state_id is an Option<Version>
put_predicted(ix, entity, prev_state_id) ==
    [ix EXCEPT !.state[version(entity)] = Some(entity),
               !.predicted[stable_id(entity)] = Some(version(entity)),
               !.link[version(entity)] =
                   IF prev_state_id # None THEN prev_state_id ELSE @]

put_confirmed(ix, entity) ==
    [ix EXCEPT !.state[version(entity)] = Some(entity),
               !.confirmed[stable_id(entity)] = Some(version(entity))]

put_unconfirmed(ix, entity) ==
    [ix EXCEPT !.state[version(entity)] = Some(entity),
               !.unconfirmed[stable_id(entity)] = Some(version(entity))]

\* a rollback that forgets to fall back to the predecessor
invalidate_no_fallback(ix, sid, eid) ==
    [ix EXCEPT !.confirmed[eid] = None,
               !.link[sid] = None,
               !.unconfirmed[eid] = None]

\* a rollback that leaves confirmed:last alone when there is no predecessor
invalidate_keep_confirmed(ix, sid, eid) ==
    LET predecessor == get_prediction_predecessor(ix, sid) IN
    [ix EXCEPT !.confirmed[eid] = IF predecessor # None THEN predecessor ELSE @,
               !.link[sid] = None,
               !.unconfirmed[eid] = None]

invalidate(ix, sid, eid) ==
    LET predecessor == get_prediction_predecessor(ix, sid) IN
    [ix EXCEPT !.confirmed[eid] = IF predecessor # None THEN predecessor ELSE None,
               !.link[sid] = None,
               !.unconfirmed[eid] = None]

eliminate(ix, ver, id) ==
    [ix EXCEPT !.link[ver] = None,
               !.predicted[id] = None,
               !.confirmed[id] = None,
               !.unconfirmed[id] = None]

\* whether following 1..n prediction links from version v arrives at target
RECURSIVE LinkReaches(_, _, _, _)
LinkReaches(ix, v, target, n) ==
    /\ n > 0
    /\ get_prediction_predecessor(ix, v) # None
    /\ \/ get_prediction_predecessor(ix, v).val = target
       \/ LinkReaches(ix, get_prediction_predecessor(ix, v).val, target, n - 1)

(* The resolver: predicted > unconfirmed > confirmed. *)
resolve_source_state(id, ix) ==
    IF get_last_predicted(ix, id) # None THEN get_last_predicted(ix, id)
    ELSE IF get_last_unconfirmed(ix, id) # None THEN get_last_unconfirmed(ix, id)
    ELSE get_last_confirmed(ix, id)

----------------------------------------------------------------------------
(* Updates: EitherMod<StateUpdate<Bundled<BakedEntity, Bearer>>>.          *)

IorLeft(a) == [tag |-> "Left", left |-> Some(a), right |-> None]

IorRight(b) == [tag |-> "Right", left |-> None, right |-> Some(b)]

IorBoth(a, b) == [tag |-> "Both", left |-> Some(a), right |-> Some(b)]

\* confirmed: EitherMod::Confirmed / Unconfirmed;
\* rollback: StateUpdate::TransitionRollback / Transition
Update(is_confirmed, is_rollback, ior) ==
    [confirmed |-> is_confirmed, rollback |-> is_rollback, ior |-> ior]

is_pool(e) == e.kind = "Pool"

Opposite(side) == IF side = "Ask" THEN "Bid" ELSE "Ask"

----------------------------------------------------------------------------
(* The per-pair book behind MultiPair::get_mut.  The executor sees it only *)
(* through ExternalTLBEvents, TemporalLiquidityBook::attempt and           *)
(* TLBFeedback.  Prices are abstracted: any two fragments of opposite      *)
(* sides cross, and any pool can absorb any fragment.                      *)

add_fragment(b, fr) == [b EXCEPT !.fragments = @ \cup {fr}]

remove_fragment(b, fr) == [b EXCEPT !.fragments = @ \ {fr}]

update_pool(b, pool) ==
    [b EXCEPT !.pools = {q \in @ : stable_id(q) # stable_id(pool)} \cup {pool}]

remove_pool(b, pool) ==
    [b EXCEPT !.pools = {q \in @ : stable_id(q) # stable_id(pool)}]

Fill(fr) == [tag |-> "Fill", target |-> fr]

Swap(pool) == [tag |-> "Swap", target |-> pool]

\* the recipes attempt() can assemble from the liquidity of b: the picked
\* fragment filled from an opposite fragment, or swapped through a pool
AttemptRecipes(b) ==
    {<<Fill(fg[1]), Fill(fg[2])>> :
        fg \in {x \in b.fragments \X b.fragments : x[2].kind = Opposite(x[1].kind)}}
    \cup {<<Swap(p), Fill(f)>> : f \in b.fragments, p \in b.pools}

RecipeTargets(recipe) == {recipe[i].target : i \in DOMAIN recipe}

\* the outcomes of attempt(): None and the book as it was, or a complete
\* recipe whose liquidity has left the stores
attempt(b) ==
    IF AttemptRecipes(b) = {}
    THEN {[recipe |-> None, book |-> b]}
    ELSE {[recipe |-> Some(r),
           book |-> [fragments |-> b.fragments \ RecipeTargets(r),
                     pools |-> b.pools \ RecipeTargets(r),
                     taken |-> b.taken \cup RecipeTargets(r)]]
          : r \in AttemptRecipes(b)}

on_recipe_succeeded(b) == [b EXCEPT !.taken = {}]

on_recipe_failed(b) ==
    [fragments |-> b.fragments \cup {t \in b.taken : ~is_pool(t)},
     pools |-> b.pools \cup {t \in b.taken :
                               /\ is_pool(t)
                               /\ \A q \in b.pools : stable_id(q) # stable_id(t)},
     taken |-> {}]

----------------------------------------------------------------------------
(* Executor::update_state, sync_book, link_recipe.                         *)

\* an update_state that forgets to refresh the cache
update_state_no_cache(ix, ch, upd) ==
    IF upd.ior.tag \in {"Right", "Both"}
    THEN LET new_state == upd.ior.right.val
             ix1 == IF upd.confirmed THEN put_confirmed(ix, new_state)
                    ELSE put_unconfirmed(ix, new_state)
             latest_state == resolve_source_state(stable_id(new_state), ix1)
         IN [index |-> ix1, cache |-> ch,
             diff |-> Some(IorRight(latest_state.val)), panic |-> "no"]
    ELSE [index |-> IF upd.rollback
                    THEN invalidate(ix, version(upd.ior.left.val), stable_id(upd.ior.left.val))
                    ELSE eliminate(ix, version(upd.ior.left.val), stable_id(upd.ior.left.val)),
          cache |-> ch, diff |-> Some(IorLeft(upd.ior.left.val)), panic |-> "no"]

\* returns the new index and cache, the diff Option<Ior<T, T>> and whether
\* the unreachable!() branch was hit
update_state(ix, ch, upd) ==
    LET is_confirmed == upd.confirmed IN
    IF upd.ior.tag \in {"Right", "Both"}
    THEN LET new_state == upd.ior.right.val
             id == stable_id(new_state)
             ix1 == IF is_confirmed THEN put_confirmed(ix, new_state)
                    ELSE put_unconfirmed(ix, new_state)
             latest_state == resolve_source_state(id, ix1)
         IN IF latest_state = None
            THEN [index |-> ix1, cache |-> ch, diff |-> None,
                  panic |-> "UnreachableResolve"]
            ELSE LET prev == ch[stable_id(latest_state.val)] IN
                 [index |-> ix1,
                  cache |-> [ch EXCEPT ![stable_id(latest_state.val)] =
                                           Some(Bundled(latest_state.val))],
                  diff |-> IF prev # None
                           THEN Some(IorBoth(prev.val.entity, latest_state.val))
                           ELSE Some(IorRight(latest_state.val)),
                  panic |-> "no"]
    ELSE LET st == upd.ior.left.val IN
         IF ~upd.rollback
         THEN [index |-> eliminate(ix, version(st), stable_id(st)),
               cache |-> ch, diff |-> Some(IorLeft(st)), panic |-> "no"]
         ELSE [index |-> invalidate(ix, version(st), stable_id(st)),
               cache |-> ch, diff |-> Some(IorLeft(st)), panic |-> "no"]

\* the match on the diff in sync_book, applied to the book of the pair
apply_diff(b, diff) ==
    IF diff = None THEN [book |-> b, panic |-> "no"]
    ELSE LET d == diff.val IN
         CASE d.tag = "Left" ->
                [book |-> IF is_pool(d.left.val) THEN remove_pool(b, d.left.val)
                          ELSE remove_fragment(b, d.left.val),
                 panic |-> "no"]
           [] d.tag = "Both" ->
                IF ~is_pool(d.left.val) /\ ~is_pool(d.right.val)
                THEN [book |-> add_fragment(remove_fragment(b, d.left.val), d.right.val),
                      panic |-> "no"]
                ELSE IF is_pool(d.right.val)
                THEN [book |-> update_pool(b, d.right.val), panic |-> "no"]
                ELSE [book |-> b, panic |-> "UnreachableDiff"]
           [] d.tag = "Right" ->
                [book |-> IF is_pool(d.right.val) THEN update_pool(b, d.right.val)
                          ELSE add_fragment(b, d.right.val),
                 panic |-> "no"]

sync_book(ix, ch, books, pair, upd) ==
    LET r == update_state(ix, ch, upd) IN
    IF r.panic # "no"
    THEN [index |-> r.index, cache |-> r.cache, multi_book |-> books, panic |-> r.panic]
    ELSE LET a == apply_diff(books[pair], r.diff) IN
         [index |-> r.index, cache |-> r.cache,
          multi_book |-> [books EXCEPT ![pair] = a.book], panic |-> a.panic]

Reverse(s) == [i \in 1..Len(s) |-> s[Len(s) + 1 - i]]

\* link_recipe pops the instructions off the end of the recipe and attaches
\* the bearer cached under the stable id of each target
link_recipe(ch, recipe) ==
    IF \E i \in DOMAIN recipe : ch[stable_id(recipe[i].target)] = None
    THEN [linked |-> <<>>, panic |-> "MissingBearer"]
    ELSE [linked |-> [i \in 1..Len(recipe) |->
                        LET ins == Reverse(recipe)[i] IN
                        [tag |-> ins.tag, target |-> ins.target,
                         bearer |-> ch[stable_id(ins.target)].val.bearer]],
          panic |-> "no"]

----------------------------------------------------------------------------
(* The liquidity book of one pair: TemporalLiquidityBook (temporal.rs)     *)
(* over a fragment store and the pool store InMemoryPooledLiquidity        *)
(* (pooled.rs).                                                            *)

\* Price: a rational <<numer, denom>>, compared by cross-multiplication
numer(p) == p[1]

denom(p) == p[2]

price_lt(a, b) == numer(a) * denom(b) < numer(b) * denom(a)

price_le(a, b) == numer(a) * denom(b) <= numer(b) * denom(a)

\* std::cmp::min / max on Price
price_min(a, b) == IF price_le(a, b) THEN a ELSE b

price_max(a, b) == IF price_le(a, b) THEN b ELSE a

\* SideMarker and its negation (!marker)
not_side(side) == IF side = "Ask" THEN "Bid" ELSE "Ask"

\* Fragment { source, input, price, fee, cost_hint, bounds } on a side
Fragment(source, side, input, price, fee, cost_hint) ==
    [source |-> source, side |-> side, input |-> input, price |-> price,
     fee |-> fee, cost_hint |-> cost_hint]

\* the fragments that effects can add to the book
FragmentUniverse ==
    {Fragment(1, "Ask", 4, <<1, 1>>, 1, 1),
     Fragment(2, "Ask", 2, <<1, 2>>, 2, 2),
     Fragment(3, "Bid", 4, <<1, 2>>, 1, 1),
     Fragment(4, "Bid", 2, <<2, 1>>, 2, 2),
     Fragment(5, "Bid", 1, <<1, 1>>, 1, 1),
     Fragment(6, "Bid", 1, <<1, 1>>, 1, 1)}

\* PartialFill::new(fr) on the side of fr
PartialFill_new(fr) ==
    [side |-> fr.side, target |-> fr, remaining_input |-> fr.input,
     accumulated_output |-> 0]

\* Side<Fill>: Fill::new(target, output) on a side
Fill_new(side, target, output) ==
    [tag |-> "Fill", side |-> side, target |-> target, output |-> output]

\* From<PartialFill> for Fill (bid.into(), ask.into())
into_fill(pf) == Fill_new(pf.side, pf.target, pf.accumulated_output)

\* Side<Price>::overlaps: a bid accepts prices up to its own, an ask prices
\* from its own
overlaps(side, limit, price) ==
    IF side = "Bid" THEN price_le(price, limit) ELSE price_le(limit, price)

\* Price::better_than for liquidity quoted on `side`: lower on the Ask side,
\* higher on the Bid side
better_than(side, p, q) ==
    IF side = "Ask" THEN price_lt(p, q) ELSE price_lt(q, p)

(* FragmentedLiquidity / FragmentStore: the set of active fragments. *)

on_side(fl, side) == {f \in fl : f.side = side}

\* the price-optimal fragments of a set on one side
best_of(frs, side) ==
    {f \in frs : \A g \in frs :
        IF side = "Ask" THEN price_le(f.price, g.price) ELSE price_le(g.price, f.price)}

\* the fragments pick_either may pop: the best of either side
pick_either(fl) == best_of(on_side(fl, "Ask"), "Ask") \cup best_of(on_side(fl, "Bid"), "Bid")

best_price(fl, side) ==
    IF on_side(fl, side) = {} THEN None
    ELSE Some((CHOOSE f \in best_of(on_side(fl, side), side) : TRUE).price)

\* the fragments try_pick may remove: the best on side that satisfy test (the
\* closure, as a function from the fragments of the store to BOOLEAN)
try_pick(fl, side, test) == best_of({f \in on_side(fl, side) : test[f]}, side)

return_fr(fl, fr) == fl \cup {fr}

add_fragments(fl, frs) == fl \cup frs

remove_fragments(fl, source) == {f \in fl : f.source # source}

(* Pool and InMemoryPooledLiquidity. *)

\* Pool { source, reserves, quality }: a constant-product pool
Pool(source, reserves_x, reserves_y, price_hint, liquidity) ==
    [source |-> source, reserves_x |-> reserves_x, reserves_y |-> reserves_y,
     quality |-> [price |-> price_hint, liquidity |-> liquidity]]

PoolUniverse ==
    {Pool(11, 4, 4, <<1, 1>>, 4),
     Pool(11, 8, 4, <<1, 2>>, 8),
     Pool(12, 2, 8, <<4, 1>>, 4),
     Pool(12, 8, 8, <<1, 1>>, 4)}

PoolSources == {p.source : p \in PoolUniverse}

\* QualityMetric::quality
quality(pool) == pool.quality

\* Ord of PoolQuality(price hint, liquidity)
quality_lt(q, r) ==
    \/ price_lt(q.price, r.price)
    \/ (~price_lt(r.price, q.price) /\ q.liquidity < r.liquidity)

\* Pool::output(side, input): an Ask sells base for quote, a Bid quote for base
pool_output(pool, side, input) ==
    IF side = "Ask"
    THEN (pool.reserves_y * input) \div (pool.reserves_x + input)
    ELSE (pool.reserves_x * input) \div (pool.reserves_y + input)

\* Pool::real_price(side, input): quote per base of the proposed trade
real_price(pool, side, input) ==
    IF side = "Ask" THEN <<pool_output(pool, side, input), input>>
    ELSE <<input, pool_output(pool, side, input)>>

\* BTreeMap<PoolQuality, SourceId>::insert / remove on a set of entries
index_insert(qi, q, source) == {e \in qi : e.q # q} \cup {[q |-> q, source |-> source]}

index_remove(qi, q) == {e \in qi : e.q # q}

\* quality_index.first_key_value()
index_first(qi) == CHOOSE e \in qi : \A d \in qi : d = e \/ quality_lt(e.q, d.q)

pool_best_price(ps) ==
    IF ps.quality_index = {} THEN None
    ELSE Some(index_first(ps.quality_index).q.price)

\* the pools in the map
stored_pools(ps) == {ps.pools[s].val : s \in {t \in PoolSources : ps.pools[t] # None}}

\* the entries of the index whose pool is in the map and passes test (the
\* closure, as a function from the pools of the map to BOOLEAN)
pool_hits(ps, test) ==
    {e \in ps.quality_index : ps.pools[e.source] # None /\ test[ps.pools[e.source].val]}

\* try_pick: walks the index in order, removes the first pool that passes
\* test from the map (the index keeps its entry)
pool_try_pick(ps, test) ==
    IF pool_hits(ps, test) = {} THEN [pool |-> None, store |-> ps]
    ELSE LET e == index_first(pool_hits(ps, test)) IN
         [pool |-> ps.pools[e.source],
          store |-> [ps EXCEPT !.pools[e.source] = None]]

return_pool(ps, pool) == [ps EXCEPT !.pools[pool.source] = Some(pool)]

\* update_pool: the index is rebuilt only when the map held a pool of the
\* same source
pool_update_pool(ps, pool) ==
    LET old_pool == ps.pools[pool.source] IN
    [pools |-> [ps.pools EXCEPT ![pool.source] = Some(pool)],
     quality_index |->
        IF old_pool # None
        THEN index_insert(index_remove(ps.quality_index, quality(old_pool.val)),
                          quality(pool), pool.source)
        ELSE ps.quality_index]

(* fill_from_fragment and fill_from_pool. *)

\* stands for 2^64, the modulus of u64 arithmetic in a build without overflow
\* checks; far above every quantity the universe can produce
WordModulus == 1048576

\* a - b on u64: the wrapped value and whether the subtraction overflowed
sub_u64(a, b) == [val |-> (a - b) % WordModulus, overflow |-> b > a]

\* a selector that always takes the price of the target
crossing_price_of_target(target, source) == target.target.price

\* price_selector(source.price, target.price): min or max by the fees
crossing_price(target, source) ==
    IF target.side = "Bid"
    THEN IF target.target.fee >= source.fee
         THEN price_min(source.price, target.target.price)
         ELSE price_max(source.price, target.target.price)
    ELSE IF target.target.fee >= source.fee
         THEN price_max(source.price, target.target.price)
         ELSE price_min(source.price, target.target.price)

\* a demand that ignores the price
demand_base_unpriced(target, source, price) ==
    IF target.side = "Bid" THEN target.remaining_input ELSE source.input

\* demand_base: the quote input of the Bid party converted at the price
demand_base_of(target, source, price) ==
    IF target.side = "Bid"
    THEN (target.remaining_input * denom(price)) \div numer(price)
    ELSE (source.input * denom(price)) \div numer(price)

\* supply_base: the base input of the Ask party
supply_base_of(target, source) ==
    IF target.side = "Bid" THEN source.input ELSE target.remaining_input

\* returns (lt, rt): the terminated side and Either::Left(the other Fill) or
\* Either::Right(the PartialFill that stays); price is the crossing price used
fill_from_fragment(target, source) ==
    IF target.side = "Bid"
    THEN LET bid == target
             ask == source
             price == crossing_price(target, source)
             demand_base == demand_base_of(target, source, price)
             supply_base == supply_base_of(target, source)
             quote_executed == (supply_base * denom(price)) \div numer(price)
         IN IF supply_base > demand_base
            THEN [lt |-> into_fill([bid EXCEPT !.accumulated_output = @ + demand_base]),
                  either |-> "Right",
                  rt |-> [side |-> "Ask", target |-> ask,
                          remaining_input |-> supply_base - demand_base,
                          accumulated_output |-> bid.remaining_input],
                  price |-> price,
                  overflow |-> FALSE]
            ELSE IF supply_base < demand_base
            THEN [lt |-> Fill_new("Ask", ask, quote_executed),
                  either |-> "Right",
                  rt |-> [bid EXCEPT
                            !.remaining_input = sub_u64(@, quote_executed).val,
                            !.accumulated_output = @ + supply_base],
                  price |-> price,
                  overflow |-> sub_u64(bid.remaining_input, quote_executed).overflow]
            ELSE [lt |-> into_fill([bid EXCEPT !.accumulated_output = @ + demand_base]),
                  either |-> "Left",
                  rt |-> Fill_new("Ask", ask, quote_executed),
                  price |-> price,
                  overflow |-> FALSE]
    ELSE LET ask == target
             bid == source
             price == crossing_price(target, source)
             demand_base == demand_base_of(target, source, price)
             supply_base == supply_base_of(target, source)
             quote_executed == (supply_base * denom(price)) \div numer(price)
         IN IF supply_base > demand_base
            THEN [lt |-> Fill_new("Bid", bid, demand_base),
                  either |-> "Right",
                  rt |-> [ask EXCEPT
                            !.remaining_input = @ - demand_base,
                            !.accumulated_output = @ + bid.input],
                  price |-> price,
                  overflow |-> FALSE]
            ELSE IF supply_base < demand_base
            THEN [lt |-> into_fill([ask EXCEPT !.accumulated_output = @ + quote_executed]),
                  either |-> "Right",
                  rt |-> [side |-> "Bid", target |-> bid,
                          remaining_input |-> sub_u64(bid.input, quote_executed).val,
                          accumulated_output |-> supply_base],
                  price |-> price,
                  overflow |-> sub_u64(bid.input, quote_executed).overflow]
            ELSE [lt |-> into_fill([ask EXCEPT !.accumulated_output = @ + bid.input]),
                  either |-> "Left",
                  rt |-> Fill_new("Bid", bid, demand_base),
                  price |-> price,
                  overflow |-> FALSE]

\* a swap whose output is not credited to the target
fill_from_pool_no_credit(target, source) ==
    LET input == target.remaining_input
        execution_amount == pool_output(source, target.side, input)
    IN [term_fill |-> into_fill(target),
        swap |-> [tag |-> "Swap", target |-> source, side |-> target.side,
                  input |-> input, output |-> execution_amount]]

\* returns (term_fill, swap)
fill_from_pool(target, source) ==
    LET input == target.remaining_input
        execution_amount == pool_output(source, target.side, input)
    IN [term_fill |-> into_fill([target EXCEPT !.accumulated_output = @ + execution_amount]),
        swap |-> [tag |-> "Swap", target |-> source, side |-> target.side,
                  input |-> input, output |-> execution_amount]]

(* ExecutionRecipe. *)

Recipe_new(fr) == [terminal |-> <<>>, remainder |-> Some(PartialFill_new(fr))]

push(acc, instruction) == [acc EXCEPT !.terminal = Append(@, instruction)]

terminate(acc, instruction) ==
    [terminal |-> Append(acc.terminal, instruction), remainder |-> None]

set_remainder(acc, partial) == [acc EXCEPT !.remainder = Some(partial)]

is_complete(acc) == acc.remainder = None /\ Len(acc.terminal) >= 2

\* the liquidity a recipe holds: the targets of its instructions, then the
\* target of its remainder
disassemble(acc) ==
    [i \in 1..Len(acc.terminal) |->
        [either |-> IF acc.terminal[i].tag = "Fill" THEN "Left" ELSE "Right",
         val |-> acc.terminal[i].target]]
    \o (IF acc.remainder = None THEN <<>>
        ELSE <<[either |-> "Left", val |-> acc.remainder.val.target]>>)

(* TemporalLiquidityBook::attempt. *)

\* ExecutionCap::safe_threshold
safe_threshold(cap) == cap.hard - cap.soft

\* a guard that ignores the safe threshold
prefer_fragments_no_threshold(side, price_in_pools, price_fragments, execution_units_left, cap) ==
    /\ price_fragments # None
    /\ (price_in_pools = None
        \/ better_than(side, price_fragments.val, price_in_pools.val))

\* the guard of the first match arm: fragments are preferred.  side is the
\* side best_price was asked for
prefer_fragments(side, price_in_pools, price_fragments, execution_units_left, cap) ==
    /\ price_fragments # None
    /\ (price_in_pools = None
        \/ better_than(side, price_fragments.val, price_in_pools.val))
    /\ execution_units_left > safe_threshold(cap)

\* a predicate that ignores the budget
fragment_test_price_only(rem, fr, execution_units_left) ==
    overlaps(rem.side, rem.target.price, fr.price)

\* a predicate that ignores the price
fragment_test_cost_only(rem, fr, execution_units_left) ==
    fr.cost_hint <= execution_units_left

\* the predicate given to fragmented_liquidity.try_pick
fragment_test(rem, fr, execution_units_left) ==
    /\ overlaps(rem.side, rem.target.price, fr.price)
    /\ fr.cost_hint <= execution_units_left

\* a predicate that accepts every pool
pool_test_any(rem, pl) == pl.source \in PoolSources

\* the predicate given to pooled_liquidity.try_pick
pool_test(rem, pl) ==
    overlaps(rem.side, rem.target.price, real_price(pl, rem.side, rem.remaining_input))

\* one entry of the record of an attempt: a counterpart was picked
Step(kind, st, rem, counterpart, asked_side, left_after) ==
    [kind |-> kind, rem |-> rem, counterpart |-> counterpart,
     asked_side |-> asked_side, left_before |-> st.execution_units_left,
     left_after |-> left_after]

\* the loop of attempt from the state st = (stores, acc, budget); best_side is
\* best_fr.marker().  Returns the states the loop can break in.  A u64
\* subtraction that overflows panics or wraps, depending on the build.
RECURSIVE attempt_loop(_, _, _)
attempt_loop(st, best_side, cap) ==
    IF st.acc.remainder = None THEN {st}
    ELSE
    LET rem == st.acc.remainder.val
        asked_side == not_side(best_side)
        price_fragments == best_price(st.fl, asked_side)
        price_in_pools == pool_best_price(st.pl)
    IN
    IF prefer_fragments(asked_side, price_in_pools, price_fragments,
                        st.execution_units_left, cap)
    THEN LET picks == try_pick(st.fl, not_side(rem.side),
                               [fr \in st.fl |-> fragment_test(rem, fr, st.execution_units_left)])
         IN IF picks = {} THEN {st}
            ELSE UNION {
              LET left == st.execution_units_left - opposite_fr.cost_hint
                  r == fill_from_fragment(rem, opposite_fr)
                  st1 == [st EXCEPT
                            !.fl = @ \ {opposite_fr},
                            !.execution_units_left = left,
                            !.steps = Append(@, Step("fragment", st, rem, opposite_fr,
                                                     asked_side, left))]
              IN IF r.either = "Left"
                 THEN {[st1 EXCEPT !.acc = terminate(push(st.acc, r.lt), r.rt)]}
                 ELSE LET st2 == [st1 EXCEPT !.acc = set_remainder(push(st.acc, r.lt), r.rt)]
                      IN IF r.overflow
                         THEN {[st2 EXCEPT !.panic = TRUE]}
                              \cup attempt_loop(st2, best_side, cap)
                         ELSE attempt_loop(st2, best_side, cap)
              : opposite_fr \in picks}
    ELSE IF price_in_pools # None /\ st.execution_units_left > 0
    THEN LET t == pool_try_pick(st.pl, [pl \in stored_pools(st.pl) |-> pool_test(rem, pl)]) IN
         IF t.pool = None THEN {st}
         ELSE LET f == fill_from_pool(rem, t.pool.val) IN
              {[st EXCEPT
                  !.pl = t.store,
                  !.acc = terminate(push(st.acc, f.swap), f.term_fill),
                  !.steps = Append(@, Step("pool", st, rem, t.pool.val, asked_side,
                                           st.execution_units_left))]}
    ELSE {st}

\* for fr in acc.disassemble() { return_fr / update_pool }
RECURSIVE return_liquidity(_, _, _)
return_liquidity(fl, pl, items) ==
    IF items = <<>> THEN [fl |-> fl, pl |-> pl]
    ELSE IF Head(items).either = "Left"
         THEN return_liquidity(return_fr(fl, Head(items).val), pl, Tail(items))
         ELSE return_liquidity(fl, pool_update_pool(pl, Head(items).val), Tail(items))

\* an attempt that returns whatever the loop assembled
attempt_finish_unchecked(book, st) ==
    [result |-> Some(st.acc),
     book |-> [book EXCEPT !.fragmented_liquidity = st.fl, !.pooled_liquidity = st.pl]]

\* an attempt that drops the liquidity of a failed recipe
attempt_finish_no_return(book, st) ==
    [result |-> IF is_complete(st.acc) THEN Some(st.acc) ELSE None,
     book |-> [book EXCEPT !.fragmented_liquidity = st.fl, !.pooled_liquidity = st.pl]]

\* if acc.is_complete() { return Some(acc) } else { return liquidity }; None
attempt_finish(book, st) ==
    IF is_complete(st.acc)
    THEN [result |-> Some(st.acc),
          book |-> [book EXCEPT !.fragmented_liquidity = st.fl,
                                !.pooled_liquidity = st.pl]]
    ELSE LET r == return_liquidity(st.fl, st.pl, disassemble(st.acc)) IN
         [result |-> None,
          book |-> [book EXCEPT !.fragmented_liquidity = r.fl,
                                !.pooled_liquidity = r.pl]]

\* a start that leaves the picked fragment in the store
attempt_start_keep_picked(book, best_fr) ==
    [fl |-> book.fragmented_liquidity,
     pl |-> book.pooled_liquidity,
     acc |-> Recipe_new(best_fr),
     execution_units_left |-> book.execution_cap.hard,
     steps |-> <<>>, panic |-> FALSE]

\* the state the loop starts in: best_fr was popped by pick_either, acc is
\* Recipe::new(best_fr) and the budget is the hard cap
attempt_start(book, best_fr) ==
    [fl |-> book.fragmented_liquidity \ {best_fr},
     pl |-> book.pooled_liquidity,
     acc |-> Recipe_new(best_fr),
     execution_units_left |-> book.execution_cap.hard,
     steps |-> <<>>, panic |-> FALSE]

\* the outcomes of attempt() on a book: the result, the book afterwards and
\* the record of the call
TemporalLiquidityBook_attempt(book) ==
    IF pick_either(book.fragmented_liquidity) = {}
    THEN {[result |-> None, book |-> book, panic |-> FALSE, picked |-> None,
           steps |-> <<>>, acc |-> None]}
    ELSE UNION {
      {IF st.panic
       THEN [result |-> None, book |-> book, panic |-> TRUE, picked |-> Some(best_fr),
             steps |-> st.steps, acc |-> Some(st.acc)]
       ELSE [result |-> attempt_finish(book, st).result,
             book |-> attempt_finish(book, st).book,
             panic |-> FALSE, picked |-> Some(best_fr),
             steps |-> st.steps, acc |-> Some(st.acc)]
       : st \in attempt_loop(attempt_start(book, best_fr),
                             best_fr.side, book.execution_cap)}
      : best_fr \in pick_either(book.fragmented_liquidity)}

\* the empty store
EmptyPools == [pools |-> [s \in PoolSources |-> None], quality_index |-> {}]

EmptyTLB ==
    [fragmented_liquidity |-> {}, pooled_liquidity |-> EmptyPools,
     execution_cap |-> [soft |-> 1, hard |-> 1]]

NoAtt == [called |-> FALSE, before |-> EmptyTLB, result |-> None, panic |-> FALSE,
          picked |-> None, steps |-> <<>>, acc |-> None]

\* no function is exercised on its own
NoCall == [op |-> "none"]

\* no book is exercised
BookIdle == tlb = EmptyTLB /\ att = NoAtt /\ call = NoCall

----------------------------------------------------------------------------
(* Initial state of the Executor and of its environment (Executor::new).   *)

EmptyBook == [fragments |-> {}, pools |-> {}, taken |-> {}]

NoObs == [kind |-> "none", pair |-> 0, attempted |-> {}, result |-> "none",
          recipe |-> <<>>, linked |-> <<>>, effects |-> <<>>, calls |-> <<>>,
          changed |-> FALSE,
          seen |-> [pend |-> FALSE, fb_ready |-> FALSE, up_ready |-> FALSE,
                    await |-> {}]]

NoChain == [stage |-> 0, c |-> 0, v1 |-> 0, v2 |-> 0, linked |-> FALSE]

NoIdxObs == [op |-> "none", id |-> 0, ver |-> 0, prev |-> None, roundtrip |-> None,
             chain |-> NoChain, eliminated |-> FALSE, confirmed_before |-> None]

ExecInit ==
    /\ cache = [i \in Ids |-> None]
    /\ multi_book = [p \in Pairs |-> EmptyBook]
    /\ pending_effects = None
    /\ focus_set = {}
    /\ feedback = <<>>
    /\ up_ready = FALSE
    /\ inflight = 0
    /\ then_fut = "none"
    /\ ingested = 0
    /\ awaiting = <<>>
    /\ crashed = "no"
    /\ obs = NoObs

----------------------------------------------------------------------------
(* Bounds and the environment of the Executor.                             *)

\* the upstream stream is finite: at most MaxUpdates items
MaxUpdates == 4

\* mpsc::channel(100)
FeedbackCapacity == 100

\* the versions upstream reports: the first snapshot of every id (later
\* versions are minted by the effects of the executor's own transactions)
UpVersions == {v \in Versions : v = 1 \/ VerId[v - 1] # VerId[v]}

\* every shape of update for a snapshot e, tagged with the pair of e
UpstreamIors(v) ==
    {IorLeft(Entity(v)), IorRight(Entity(v))}
    \cup {IorBoth(Entity(u), Entity(v)) : u \in VersionsOf(VerId[v]) \ {v}}

UpstreamItems ==
    UNION {{[pair |-> PairOfId[VerId[v]], update |-> Update(c, rb, ior)] :
              c \in BOOLEAN, rb \in BOOLEAN, ior \in UpstreamIors(v)}
           : v \in UpVersions}

\* Interpreter::run is external: its effects are the successor snapshots of
\* any of the linked targets (a consumed target has no successor)
HasSuccessor(v) == v + 1 \in Versions /\ VerId[v + 1] = VerId[v]

EffectChoices(linked) ==
    LET cand == {i \in DOMAIN linked : HasSuccessor(version(linked[i].target))}
        idxs == [i \in DOMAIN linked |-> i]
    IN {LET kept == SelectSeq(idxs, LAMBDA i : i \in J) IN
        [k \in DOMAIN kept |-> Entity(version(linked[kept[k]].target) + 1)]
        : J \in SUBSET cand}

RangeOf(s) == {s[i] : i \in DOMAIN s}

Call(op, arg) == [op |-> op, arg |-> arg]

----------------------------------------------------------------------------
(* Executor::poll_next, one iteration of its loop per step.                *)

\* while let Some((e, bearer)) = pending_effects.pop() { update_state(..) }:
\* only the first popped effect is applied
apply_effects_first_only(ix, ch, effs) ==
    IF effs = <<>>
    THEN [index |-> ix, cache |-> ch, panic |-> "no", calls |-> <<>>]
    ELSE LET e == effs[Len(effs)]
             r == update_state(ix, ch, Update(FALSE, FALSE, IorRight(e)))
         IN [index |-> r.index, cache |-> r.cache, panic |-> r.panic,
             calls |-> <<Call("put_unconfirmed", version(e))>>]

RECURSIVE apply_effects(_, _, _)
apply_effects(ix, ch, effs) ==
    IF effs = <<>>
    THEN [index |-> ix, cache |-> ch, panic |-> "no", calls |-> <<>>]
    ELSE LET e == effs[Len(effs)]
             r == update_state(ix, ch, Update(FALSE, FALSE, IorRight(e)))
         IN IF r.panic # "no"
            THEN [index |-> r.index, cache |-> r.cache, panic |-> r.panic,
                  calls |-> <<Call("put_unconfirmed", version(e))>>]
            ELSE LET rest == apply_effects(r.index, r.cache, SubSeq(effs, 1, Len(effs) - 1))
                 IN [index |-> rest.index, cache |-> rest.cache, panic |-> rest.panic,
                     calls |-> <<Call("put_unconfirmed", version(e))>> \o rest.calls]

\* the match on the feedback result
handle_feedback(ix, ch, books, pair, effs, result) ==
    IF result = "Ok"
    THEN LET a == apply_effects(ix, ch, effs) IN
         IF a.panic # "no"
         THEN [index |-> a.index, cache |-> a.cache, multi_book |-> books,
               panic |-> a.panic, calls |-> a.calls]
         ELSE [index |-> a.index, cache |-> a.cache,
               multi_book |-> [books EXCEPT ![pair] = on_recipe_succeeded(@)],
               panic |-> "no",
               calls |-> Append(a.calls, Call("on_recipe_succeeded", pair))]
    ELSE [index |-> ix, cache |-> ch,
          multi_book |-> [books EXCEPT ![pair] = on_recipe_failed(@)],
          panic |-> "no",
          calls |-> <<Call("on_recipe_failed", pair)>>]

\* if let Some(..) = pending_effects.take() { if let Ready(Some(result)) = feedback.poll_next() {
FeedbackBranch == pending_effects # None /\ feedback # <<>>

\* an ingest that does not look at the feedback first
IngestBranch_unordered == up_ready

\* if let Ready(Some((pair, update))) = upstream.poll_next() {
IngestBranch == ~FeedbackBranch /\ up_ready

\* while let Some(focus_pair) = focus_set.pop_first() {
WorkBranch == ~FeedbackBranch /\ ~up_ready

\* what an iteration saw when it started
Seen ==
    [pend |-> pending_effects # None, fb_ready |-> feedback # <<>>,
     up_ready |-> up_ready, await |-> RangeOf(awaiting)]

PollFeedback ==
    /\ crashed = "no"
    /\ FeedbackBranch
    /\ LET pair == pending_effects.val.pair
           effs == pending_effects.val.effects
           result == Head(feedback)
           r == handle_feedback(index, cache, multi_book, pair, effs, result)
       IN /\ index' = r.index
          /\ cache' = r.cache
          /\ multi_book' = r.multi_book
          /\ crashed' = r.panic
          /\ obs' = [kind |-> IF result = "Ok" THEN "feedback_ok" ELSE "feedback_err",
                     pair |-> pair, attempted |-> {}, result |-> "continue",
                     recipe |-> <<>>, linked |-> <<>>, effects |-> effs,
                     calls |-> r.calls,
                     changed |-> (r.index # index \/ r.cache # cache),
                     seen |-> Seen]
    /\ pending_effects' = None
    /\ feedback' = Tail(feedback)
    /\ awaiting' = Tail(awaiting)
    /\ UNCHANGED <<focus_set, up_ready, ingested>>

PollIngest ==
    /\ crashed = "no"
    /\ IngestBranch
    /\ \E item \in UpstreamItems :
         LET r == sync_book(index, cache, multi_book, item.pair, item.update) IN
         /\ index' = r.index
         /\ cache' = r.cache
         /\ multi_book' = r.multi_book
         /\ crashed' = r.panic
         /\ focus_set' = IF r.panic = "no" THEN focus_set \cup {item.pair} ELSE focus_set
         /\ obs' = [kind |-> "ingest", pair |-> item.pair, attempted |-> {},
                    result |-> "continue", recipe |-> <<>>, linked |-> <<>>,
                    effects |-> <<>>, calls |-> <<>>,
                    changed |-> (r.index # index \/ r.cache # cache),
                    seen |-> Seen]
    /\ up_ready' = FALSE
    /\ ingested' = ingested + 1
    /\ UNCHANGED <<pending_effects, feedback, awaiting>>

\* the pairs of fs whose book yields a recipe
Hits(fs) == {p \in fs : \E o \in attempt(multi_book[p]) : o.recipe # None}

\* the first pair popped off focus_set whose attempt() returns a recipe
FirstHit(fs) == CHOOSE p \in Hits(fs) : \A q \in Hits(fs) : p <= q

\* the work loop reaches a pair whose attempt() returns Some(recipe)
PollWorkEmit ==
    /\ crashed = "no"
    /\ WorkBranch
    /\ Hits(focus_set) # {}
    /\ LET focus_pair == FirstHit(focus_set) IN
       \E o \in attempt(multi_book[focus_pair]) :
         LET l == link_recipe(cache, o.recipe.val) IN
         \E effects \in EffectChoices(l.linked) :
           /\ multi_book' = [multi_book EXCEPT ![focus_pair] = o.book]
           /\ crashed' = l.panic
           /\ pending_effects' =
                IF l.panic = "no"
                THEN Some([pair |-> focus_pair, effects |-> effects])
                ELSE pending_effects
           /\ focus_set' = {q \in focus_set : q >= focus_pair}
           /\ awaiting' = IF l.panic = "no" THEN Append(awaiting, focus_pair)
                          ELSE awaiting
           /\ obs' = [kind |-> "work", pair |-> focus_pair,
                      attempted |-> {q \in focus_set : q <= focus_pair},
                      result |-> IF l.panic = "no" THEN "ready" ELSE "panic",
                      recipe |-> o.recipe.val, linked |-> l.linked,
                      effects |-> effects, calls |-> <<>>, changed |-> FALSE,
                      seen |-> Seen]
    /\ UNCHANGED <<index, cache, feedback, up_ready, ingested>>

\* the work loop empties focus_set without a recipe: Poll::Pending
PollWorkPending ==
    /\ crashed = "no"
    /\ WorkBranch
    /\ Hits(focus_set) = {}
    /\ focus_set' = {}
    /\ obs' = [kind |-> "work", pair |-> 0, attempted |-> focus_set,
               result |-> "pending", recipe |-> <<>>, linked |-> <<>>,
               effects |-> <<>>, calls |-> <<>>, changed |-> FALSE,
               seen |-> Seen]
    /\ UNCHANGED <<index, cache, multi_book, pending_effects, feedback, up_ready,
                   ingested, crashed, awaiting>>

\* the upstream stream gets its next item ready
UpstreamArrive ==
    /\ ~up_ready
    /\ ingested < MaxUpdates
    /\ up_ready' = TRUE
    /\ UNCHANGED <<index, cache, multi_book, pending_effects, focus_set, feedback,
                   ingested, crashed, obs, awaiting, inflight, then_fut>>

----------------------------------------------------------------------------
(* Spec: the Executor polled on an arbitrary schedule; the result of each  *)
(* emitted transaction reaches the feedback channel at an arbitrary time.  *)

FreePollFeedback == PollFeedback /\ UNCHANGED <<inflight, then_fut>>

FreePollIngest == PollIngest /\ UNCHANGED <<inflight, then_fut>>

FreePollWorkEmit ==
    /\ PollWorkEmit
    /\ inflight' = IF crashed' = "no" THEN inflight + 1 ELSE inflight
    /\ UNCHANGED then_fut

FreePollWorkPending == PollWorkPending /\ UNCHANGED <<inflight, then_fut>>

\* network.submit_tx(tx) resolves and its result is sent on the channel
FreeSubmitResult ==
    /\ inflight > 0
    /\ Len(feedback) < FeedbackCapacity
    /\ \E result \in {"Ok", "Err"} : feedback' = Append(feedback, result)
    /\ inflight' = inflight - 1
    /\ UNCHANGED <<index, cache, multi_book, pending_effects, focus_set, up_ready,
                   ingested, crashed, obs, awaiting, then_fut>>

Init ==
    /\ index = EmptyIndex
    /\ live_preds = [i \in Ids |-> <<>>]
    /\ idx_obs = NoIdxObs
    /\ ExecInit
    /\ BookIdle

Next ==
    \/ FreePollFeedback /\ UNCHANGED <<live_preds, idx_obs, tlb, att, call>>
    \/ FreePollIngest /\ UNCHANGED <<live_preds, idx_obs, tlb, att, call>>
    \/ FreePollWorkEmit /\ UNCHANGED <<live_preds, idx_obs, tlb, att, call>>
    \/ FreePollWorkPending /\ UNCHANGED <<live_preds, idx_obs, tlb, att, call>>
    \/ UpstreamArrive /\ UNCHANGED <<live_preds, idx_obs, tlb, att, call>>
    \/ FreeSubmitResult /\ UNCHANGED <<live_preds, idx_obs, tlb, att, call>>

Spec == Init /\ [][Next]_vars

----------------------------------------------------------------------------
(* SpecStream: execution_part_stream, the Executor under `then`.  The      *)
(* combinator polls the Executor only while it holds no future; the future *)
(* of a transaction awaits submit_tx and then sends the result.            *)

\* a driver that keeps polling the Executor while a submission is in flight
ThenIdle_eager == TRUE

ThenIdle == then_fut = "none"

ThenPollFeedback == ThenIdle /\ PollFeedback /\ UNCHANGED <<inflight, then_fut>>

ThenPollIngest == ThenIdle /\ PollIngest /\ UNCHANGED <<inflight, then_fut>>

ThenPollWorkEmit ==
    /\ ThenIdle
    /\ PollWorkEmit
    /\ inflight' = IF crashed' = "no" THEN inflight + 1 ELSE inflight
    /\ then_fut' = IF crashed' = "no" THEN "submit" ELSE then_fut

ThenPollWorkPending == ThenIdle /\ PollWorkPending /\ UNCHANGED <<inflight, then_fut>>

\* let result = network.submit_tx(tx).await;
ThenSubmit ==
    /\ then_fut = "submit"
    /\ then_fut' \in {"send_Ok", "send_Err"}
    /\ UNCHANGED <<index, cache, multi_book, pending_effects, focus_set, feedback,
                   up_ready, ingested, crashed, obs, awaiting, inflight>>

\* feedback.send(result).await
ThenSend ==
    /\ then_fut \in {"send_Ok", "send_Err"}
    /\ Len(feedback) < FeedbackCapacity
    /\ feedback' = Append(feedback, IF then_fut = "send_Ok" THEN "Ok" ELSE "Err")
    /\ inflight' = inflight - 1
    /\ then_fut' = "none"
    /\ UNCHANGED <<index, cache, multi_book, pending_effects, focus_set, up_ready,
                   ingested, crashed, obs, awaiting>>

StreamNext ==
    \/ ThenPollFeedback /\ UNCHANGED <<live_preds, idx_obs, tlb, att, call>>
    \/ ThenPollIngest /\ UNCHANGED <<live_preds, idx_obs, tlb, att, call>>
    \/ ThenPollWorkEmit /\ UNCHANGED <<live_preds, idx_obs, tlb, att, call>>
    \/ ThenPollWorkPending /\ UNCHANGED <<live_preds, idx_obs, tlb, att, call>>
    \/ UpstreamArrive /\ UNCHANGED <<live_preds, idx_obs, tlb, att, call>>
    \/ ThenSubmit /\ UNCHANGED <<live_preds, idx_obs, tlb, att, call>>
    \/ ThenSend /\ UNCHANGED <<live_preds, idx_obs, tlb, att, call>>

SpecStream == Init /\ [][StreamNext]_vars

\* the combinator is ready to poll the Executor and the Executor would take
\* the feedback branch
FeedbackDue == ThenIdle /\ crashed = "no" /\ FeedbackBranch

\* SpecStream under fair scheduling: the combinator keeps polling the
\* Executor (every iteration of poll_next that can run does run), a submitted
\* transaction gets its result, the result is sent, and an upstream item that
\* is due arrives.  Nothing is assumed about the results of the submissions.
\* The feedback iteration is enabled exactly when FeedbackDue holds and ends
\* with pending_effects = None, so weak fairness of it is []<>~FeedbackDue.
SpecStreamFair ==
    /\ SpecStream
    /\ WF_vars(ThenPollIngest /\ UNCHANGED <<live_preds, idx_obs, tlb, att, call>>)
    /\ WF_vars(ThenPollWorkEmit /\ UNCHANGED <<live_preds, idx_obs, tlb, att, call>>)
    /\ WF_vars(ThenPollWorkPending /\ UNCHANGED <<live_preds, idx_obs, tlb, att, call>>)
    /\ WF_vars(ThenSubmit /\ UNCHANGED <<live_preds, idx_obs, tlb, att, call>>)
    /\ WF_vars(ThenSend /\ UNCHANGED <<live_preds, idx_obs, tlb, att, call>>)
    /\ WF_vars(UpstreamArrive /\ UNCHANGED <<live_preds, idx_obs, tlb, att, call>>)
    /\ []<>~FeedbackDue

----------------------------------------------------------------------------
(* SpecIndex: arbitrary sequences of operations on the state index.        *)

\* the ids exercised on the index alone.  Operations on different ids touch
\* disjoint keys (a version belongs to one id), so one id with three versions
\* (a confirmed state and a predicted chain of two) covers the index.
IdxIds == {1}

IdxVersions == {v \in Versions : VerId[v] \in IdxIds}

\* s without its occurrences of v
RemoveVer(s, v) == SelectSeq(s, LAMBDA x : x # v)

\* progress of the scenario "a confirmed state c is stored, a predicted chain
\* v1 -> v2 is put on top of it, v2 is invalidated, then v1": stage 1 after
\* put_predicted(v1, _) over the stored confirmed c, stage 2 after
\* put_predicted(v2, Some(v1)), stage 3 after invalidate(v2), stage 4 after
\* invalidate(v1).  linked records whether v1 was put with predecessor c.
ChainStep(op, v, prev) ==
    LET ch == idx_obs.chain
        conf == index.confirmed[VerId[v]]
    IN CASE op = "put_predicted" /\ ch.stage = 1 /\ prev = Some(ch.v1)
                /\ v \notin {ch.c, ch.v1} ->
              [ch EXCEPT !.stage = 2, !.v2 = v]
         [] op = "put_predicted" /\ ~(ch.stage = 1 /\ prev = Some(ch.v1) /\ v \notin {ch.c, ch.v1})
                /\ conf # None /\ conf # Some(v) /\ index.state[conf.val] # None
                /\ prev \in {None, conf} ->
              [stage |-> 1, c |-> conf.val, v1 |-> v, v2 |-> 0, linked |-> prev # None]
         [] op = "invalidate" /\ ch.stage = 2 /\ v = ch.v2 -> [ch EXCEPT !.stage = 3]
         [] op = "invalidate" /\ ch.stage = 3 /\ v = ch.v1 -> [ch EXCEPT !.stage = 4]
         [] OTHER -> NoChain

IdxInit ==
    /\ index = EmptyIndex
    /\ live_preds = [i \in Ids |-> <<>>]
    /\ idx_obs = NoIdxObs
    /\ ExecInit
    /\ BookIdle

\* Traced { state, prev_state_id }: the predecessor of a predicted state is
\* the ledger output it spends, which exists before it; versions are numbered
\* in the order the outputs are created
IdxPutPredicted ==
    \E v \in IdxVersions :
      \E prev \in {None} \cup {Some(u) : u \in {w \in VersionsOf(VerId[v]) : w < v}} :
        /\ index' = put_predicted(index, Entity(v), prev)
        /\ live_preds' = [live_preds EXCEPT ![VerId[v]] = Append(RemoveVer(@, v), v)]
        /\ idx_obs' = [op |-> "put_predicted", id |-> VerId[v], ver |-> v,
                       prev |-> prev, roundtrip |-> None,
                       chain |-> ChainStep("put_predicted", v, prev),
                       eliminated |-> FALSE,
                       confirmed_before |-> None]
        /\ UNCHANGED exec_vars

IdxPutConfirmed ==
    \E v \in IdxVersions :
        /\ index' = put_confirmed(index, Entity(v))
        /\ idx_obs' = [op |-> "put_confirmed", id |-> VerId[v], ver |-> v,
                       prev |-> None, roundtrip |-> None,
                       chain |-> NoChain, eliminated |-> FALSE,
                       confirmed_before |-> None]
        /\ UNCHANGED <<live_preds, exec_vars>>

IdxPutUnconfirmed ==
    \E v \in IdxVersions :
        /\ index' = put_unconfirmed(index, Entity(v))
        /\ idx_obs' = [op |-> "put_unconfirmed", id |-> VerId[v], ver |-> v,
                       prev |-> None, roundtrip |-> None,
                       chain |-> NoChain, eliminated |-> FALSE,
                       confirmed_before |-> None]
        /\ UNCHANGED <<live_preds, exec_vars>>

\* invalidate(v, id) right after put_predicted(s, prev) with s.version = v and
\* the state of prev stored is a round trip; roundtrip records prev
\* prev records the predecessor link invalidate found, confirmed_before the
\* confirmed:last entry of the id before the call
IdxInvalidate ==
    \E v \in IdxVersions :
        /\ index' = invalidate(index, v, VerId[v])
        /\ live_preds' = [live_preds EXCEPT ![VerId[v]] = RemoveVer(@, v)]
        /\ idx_obs' = [op |-> "invalidate", id |-> VerId[v], ver |-> v,
                       prev |-> get_prediction_predecessor(index, v),
                       roundtrip |->
                           IF /\ idx_obs.op = "put_predicted"
                              /\ idx_obs.ver = v
                              /\ idx_obs.prev # None
                              /\ index.state[idx_obs.prev.val] # None
                           THEN idx_obs.prev ELSE None,
                       chain |-> ChainStep("invalidate", v, None),
                       eliminated |-> idx_obs.eliminated,
                       confirmed_before |-> index.confirmed[VerId[v]]]
        /\ UNCHANGED exec_vars

IdxEliminate ==
    \E v \in IdxVersions :
        /\ index' = eliminate(index, v, VerId[v])
        /\ live_preds' = [live_preds EXCEPT ![VerId[v]] = <<>>]
        /\ idx_obs' = [op |-> "eliminate", id |-> VerId[v], ver |-> v,
                       prev |-> None, roundtrip |-> None,
                       chain |-> NoChain, eliminated |-> TRUE,
                       confirmed_before |-> None]
        /\ UNCHANGED exec_vars

IdxNext ==
    \/ IdxPutPredicted /\ UNCHANGED <<book_vars, call>>
    \/ IdxPutConfirmed /\ UNCHANGED <<book_vars, call>>
    \/ IdxPutUnconfirmed /\ UNCHANGED <<book_vars, call>>
    \/ IdxInvalidate /\ UNCHANGED <<book_vars, call>>
    \/ IdxEliminate /\ UNCHANGED <<book_vars, call>>

SpecIndex == IdxInit /\ [][IdxNext]_vars

----------------------------------------------------------------------------
(* SpecBook: one TemporalLiquidityBook under arbitrary effects (apply) and *)
(* calls of attempt.                                                       *)

\* the largest hard execution cap exercised
MaxHard == 3

\* ExecutionCap { soft, hard } with soft <= hard
Caps ==
    {c \in [soft : 0..MaxHard, hard : 1..MaxHard] : c.soft <= c.hard}

\* a consistent pool store holding the pools ps (distinct sources and
\* qualities): every pool is in the map and has its index entry
pool_store_of(ps) ==
    [pools |-> [s \in PoolSources |->
                  IF \E p \in ps : p.source = s
                  THEN Some(CHOOSE p \in ps : p.source = s) ELSE None],
     quality_index |-> {[q |-> quality(p), source |-> p.source] : p \in ps}]

\* the stores a book is constructed with: empty, or holding indexed pools
PoolStoreInits ==
    {pool_store_of({}),
     pool_store_of({Pool(11, 4, 4, <<1, 1>>, 4)}),
     pool_store_of({Pool(11, 8, 4, <<1, 2>>, 8), Pool(12, 2, 8, <<4, 1>>, 4)})}

BookInit ==
    /\ index = EmptyIndex
    /\ live_preds = [i \in Ids |-> <<>>]
    /\ idx_obs = NoIdxObs
    /\ ExecInit
    /\ tlb \in {[fragmented_liquidity |-> {}, pooled_liquidity |-> ps,
                 execution_cap |-> c] : ps \in PoolStoreInits, c \in Caps}
    /\ att = NoAtt
    /\ call = NoCall

\* apply(Effect::BatchAddFragments(source, frs))
BookAddFragments ==
    /\ ~att.panic
    /\ \E fr \in FragmentUniverse :
         /\ \A g \in tlb.fragmented_liquidity : g.source # fr.source
         /\ tlb' = [tlb EXCEPT !.fragmented_liquidity = add_fragments(@, {fr})]
    /\ att' = NoAtt

\* apply(Effect::BatchRemoveFragments(id))
BookRemoveFragments ==
    /\ ~att.panic
    /\ \E fr \in tlb.fragmented_liquidity :
         tlb' = [tlb EXCEPT !.fragmented_liquidity = remove_fragments(@, fr.source)]
    /\ att' = NoAtt

\* apply(Effect::PoolUpdated(new_pool))
BookPoolUpdated ==
    /\ ~att.panic
    /\ \E new_pool \in PoolUniverse :
         tlb' = [tlb EXCEPT !.pooled_liquidity = pool_update_pool(@, new_pool)]
    /\ att' = NoAtt

BookAttempt ==
    /\ ~att.panic
    /\ \E o \in TemporalLiquidityBook_attempt(tlb) :
         /\ tlb' = o.book
         /\ att' = [called |-> TRUE, before |-> tlb, result |-> o.result,
                    panic |-> o.panic, picked |-> o.picked, steps |-> o.steps,
                    acc |-> o.acc]

BookNext ==
    \/ BookAddFragments /\ UNCHANGED <<index, live_preds, idx_obs, exec_vars, call>>
    \/ BookRemoveFragments /\ UNCHANGED <<index, live_preds, idx_obs, exec_vars, call>>
    \/ BookPoolUpdated /\ UNCHANGED <<index, live_preds, idx_obs, exec_vars, call>>
    \/ BookAttempt /\ UNCHANGED <<index, live_preds, idx_obs, exec_vars, call>>

SpecBook == BookInit /\ [][BookNext]_vars

----------------------------------------------------------------------------
(* SpecFill: fill_from_fragment and fill_from_pool applied to arbitrary    *)
(* targets and sources.                                                    *)

\* the largest input of a generated fragment
MaxInput == 4

\* prices below, at and above 1
FillPrices == {<<1, 2>>, <<1, 1>>, <<3, 2>>, <<2, 1>>, <<3, 1>>}

FillFees == {1, 2}

\* the fragments of the unit tests of temporal.rs (fees in 1/1000)
TestFragments(side) ==
    IF side = "Ask"
    THEN {Fragment(21, "Ask", 1000, <<37, 100>>, 1, 100),
          Fragment(21, "Ask", 1000, <<36, 100>>, 1, 100)}
    ELSE {Fragment(22, "Bid", 370, <<37, 100>>, 1, 100),
          Fragment(22, "Bid", 210, <<37, 100>>, 1, 100),
          Fragment(22, "Bid", 360, <<37, 100>>, 2, 100)}

\* the fragments of one side given to the fill functions
FillFragments(side) ==
    {Fragment(IF side = "Ask" THEN 21 ELSE 22, side, i, p, f, 1) :
        i \in 1..MaxInput, p \in FillPrices, f \in FillFees}
    \cup TestFragments(side)

\* the targets: a fragment of which some input remains
PartialFills(side) ==
    {[side |-> side, target |-> fr, remaining_input |-> r, accumulated_output |-> a] :
        fr \in FillFragments(side), r \in 1..MaxInput, a \in 0..1}
    \cup {PartialFill_new(fr) : fr \in FillFragments(side)}

\* the arguments of a call that is still to be made
Args(fn, target, source) == [op |-> "args", fn |-> fn, target |-> target, source |-> source]

\* the targets and sources the fill functions are called with: a target of
\* which at most its input remains, and a source of the opposite side or a pool
FillArgs(sides) ==
    UNION {
      {Args("fill_from_fragment", target, source) :
          target \in {t \in PartialFills(side) : t.remaining_input <= t.target.input},
          source \in FillFragments(not_side(side))}
      \cup
      {Args("fill_from_pool", target, source) :
          target \in {t \in PartialFills(side) : t.remaining_input <= t.target.input},
          source \in PoolUniverse}
      : side \in sides}

FillInit ==
    /\ index = EmptyIndex
    /\ live_preds = [i \in Ids |-> <<>>]
    /\ idx_obs = NoIdxObs
    /\ ExecInit
    /\ tlb = EmptyTLB
    /\ att = NoAtt
    /\ call \in FillArgs({"Ask", "Bid"})

\* fill_from_fragment(target, source)
FillFromFragment ==
    /\ call.op = "args"
    /\ call.fn = "fill_from_fragment"
    /\ call' = [op |-> "fill_from_fragment", target |-> call.target,
                source |-> call.source,
                out |-> fill_from_fragment(call.target, call.source)]

\* fill_from_pool(target, source)
FillFromPool ==
    /\ call.op = "args"
    /\ call.fn = "fill_from_pool"
    /\ call' = [op |-> "fill_from_pool", target |-> call.target,
                source |-> call.source,
                out |-> fill_from_pool(call.target, call.source)]

FillNext ==
    \/ FillFromFragment /\ UNCHANGED <<index, live_preds, idx_obs, exec_vars, book_vars>>
    \/ FillFromPool /\ UNCHANGED <<index, live_preds, idx_obs, exec_vars, book_vars>>

SpecFill == FillInit /\ [][FillNext]_vars

----------------------------------------------------------------------------
(* SpecPools: an InMemoryPooledLiquidity under arbitrary sequences of      *)
(* update_pool, try_pick and return_pool.                                  *)

\* the closures given to try_pick: each accepts the pools of one set
PoolTests == {PoolUniverse} \cup {{pl} : pl \in PoolUniverse}

\* the closure that accepts the pools of the set `accepted`
accepts(ps, accepted) == [pl \in stored_pools(ps) |-> pl \in accepted]

\* the last operation on the store; held are the pools try_pick handed out
\* that were not returned yet
PoolCall(op, pool, held) == [op |-> op, pool |-> pool, held |-> held]

PoolsInit ==
    /\ index = EmptyIndex
    /\ live_preds = [i \in Ids |-> <<>>]
    /\ idx_obs = NoIdxObs
    /\ ExecInit
    /\ tlb \in {[EmptyTLB EXCEPT !.pooled_liquidity = ps] : ps \in PoolStoreInits}
    /\ att = NoAtt
    /\ call = PoolCall("new", None, {})

\* update_pool(new_pool)
PoolsUpdatePool ==
    \E new_pool \in PoolUniverse :
        /\ tlb' = [tlb EXCEPT !.pooled_liquidity = pool_update_pool(@, new_pool)]
        /\ call' = PoolCall("update_pool", Some(new_pool), call.held)

\* try_pick(test)
PoolsTryPick ==
    \E accepted \in PoolTests :
        LET t == pool_try_pick(tlb.pooled_liquidity,
                               accepts(tlb.pooled_liquidity, accepted))
        IN /\ tlb' = [tlb EXCEPT !.pooled_liquidity = t.store]
           /\ call' = PoolCall("try_pick", t.pool,
                               IF t.pool = None THEN call.held
                               ELSE call.held \cup {t.pool.val})

\* return_pool(pool) of a pool that try_pick handed out
PoolsReturnPool ==
    \E pool \in call.held :
        /\ tlb' = [tlb EXCEPT !.pooled_liquidity = return_pool(@, pool)]
        /\ call' = PoolCall("return_pool", Some(pool), call.held \ {pool})

PoolsNext ==
    \/ PoolsUpdatePool /\ UNCHANGED <<index, live_preds, idx_obs, exec_vars, att>>
    \/ PoolsTryPick /\ UNCHANGED <<index, live_preds, idx_obs, exec_vars, att>>
    \/ PoolsReturnPool /\ UNCHANGED <<index, live_preds, idx_obs, exec_vars, att>>

SpecPools == PoolsInit /\ [][PoolsNext]_vars

----------------------------------------------------------------------------
(* SpecPair: PairId::canonical (bloom-offchain-cardano/src/lib.rs) applied *)
(* to arbitrary asset classes.                                             *)

\* the largest policy id and asset name of a generated token
MaxToken == 3

\* AssetClass: Native, or Token(policy id, asset name)
AssetClasses ==
    {<<0, 0, 0>>} \cup {<<1, p, n>> : p \in 1..MaxToken, n \in 1..MaxToken}

\* the derived Ord of AssetClass: variants in declaration order, then the
\* fields of the token left to right
asset_lt(a, b) ==
    \/ a[1] < b[1]
    \/ a[1] = b[1] /\ a[2] < b[2]
    \/ a[1] = b[1] /\ a[2] = b[2] /\ a[3] < b[3]

\* an ordering that leaves the arguments as they came
order_canonical_unsorted(x, y) == <<x, y>>

\* let mut bf = [x, y]; bf.sort(); bf
order_canonical(x, y) == IF asset_lt(y, x) THEN <<y, x>> ELSE <<x, y>>

\* PairId::canonical(x, y) = PairId(xs[0], xs[1])
PairId_canonical(x, y) ==
    LET xs == order_canonical(x, y) IN <<xs[1], xs[2]>>

PairInit ==
    /\ index = EmptyIndex
    /\ live_preds = [i \in Ids |-> <<>>]
    /\ idx_obs = NoIdxObs
    /\ ExecInit
    /\ tlb = EmptyTLB
    /\ att = NoAtt
    /\ call \in {[op |-> "args", fn |-> "canonical", x |-> x, y |-> y] :
                   x \in AssetClasses, y \in AssetClasses}

\* PairId::canonical(x, y)
PairCanonical ==
    /\ call.op = "args"
    /\ call.fn = "canonical"
    /\ call' = [op |-> "canonical", x |-> call.x, y |-> call.y,
                out |-> PairId_canonical(call.x, call.y)]

PairNext ==
    PairCanonical /\ UNCHANGED <<index, live_preds, idx_obs, exec_vars, book_vars>>

SpecPair == PairInit /\ [][PairNext]_vars

----------------------------------------------------------------------------
(* SpecSync: Executor::sync_book called on arbitrary updates, from the     *)
(* state Executor::new leaves.  BakedEntity is Either<order, pool> and the *)
(* types do not tie the variant to the stable id: the updates may report   *)
(* an order and a pool under one stable id.                                *)

\* the number of sync_book calls exercised
MaxSync == 2

\* the snapshots of stable id 1, as an order (Either::Left) or as a pool
\* (Either::Right)
SyncEntities ==
    {[Entity(v) EXCEPT !.kind = k] : v \in VersionsOf(1), k \in {"Ask", "Pool"}}

SyncUpdates ==
    {Update(c, rb, ior) :
        c \in BOOLEAN, rb \in BOOLEAN,
        ior \in {IorLeft(e) : e \in SyncEntities}
                \cup {IorRight(e) : e \in SyncEntities}
                \cup {IorBoth(e[1], e[2]) :
                        e \in {x \in SyncEntities \X SyncEntities : x[1] # x[2]}}}

SyncInit ==
    /\ index = EmptyIndex
    /\ live_preds = [i \in Ids |-> <<>>]
    /\ idx_obs = NoIdxObs
    /\ ExecInit
    /\ BookIdle

\* sync_book(pair, update); call records the update, the diff update_state
\* returned and the book of the pair before the call
SyncBook ==
    /\ crashed = "no"
    /\ ingested < MaxSync
    /\ \E update \in SyncUpdates :
         LET pair == PairOfId[1]
             r == sync_book(index, cache, multi_book, pair, update)
         IN /\ index' = r.index
            /\ cache' = r.cache
            /\ multi_book' = r.multi_book
            /\ crashed' = r.panic
            /\ call' = [op |-> "sync_book", pair |-> pair, update |-> update,
                        diff |-> update_state(index, cache, update).diff,
                        book_before |-> multi_book[pair]]
    /\ ingested' = ingested + 1
    /\ UNCHANGED <<pending_effects, focus_set, feedback, up_ready, inflight, then_fut,
                   awaiting, obs>>

SyncNext ==
    SyncBook /\ UNCHANGED <<live_preds, idx_obs, tlb, att>>

SpecSync == SyncInit /\ [][SyncNext]_vars

----------------------------------------------------------------------------
(* Claims about the index and the resolver (SpecIndex).                    *)

\* the state the resolver is expected to return for id: the latest live
\* prediction, else the latest unconfirmed state, else the latest confirmed one
ExpectedResolve(id) ==
    IF live_preds[id] # <<>>
    THEN index.state[live_preds[id][Len(live_preds[id])]]
    ELSE IF index.unconfirmed[id] # None
         THEN get_last_unconfirmed(index, id)
         ELSE get_last_confirmed(index, id)

\* C9: for every id the resolver returns the latest predicted state that was
\* put (with or without a predecessor) and not invalidated or eliminated, else
\* the latest unconfirmed state, else the latest confirmed state.
C9_ResolverPrecedence ==
    \A id \in IdxIds : resolve_source_state(id, index) = ExpectedResolve(id)

\* C10: put_predicted(s, prev) with the state of prev stored, followed by
\* invalidate(s.version, id), makes the resolver return the state of prev.
C10_RoundTrip ==
    idx_obs.roundtrip # None =>
        /\ index.state[idx_obs.roundtrip.val] # None
        /\ resolve_source_state(idx_obs.id, index) = index.state[idx_obs.roundtrip.val]

\* a round trip over a proper predecessor that hid an unconfirmed-free index
C10_Witness ==
    /\ idx_obs.op = "invalidate"
    /\ idx_obs.roundtrip # None
    /\ idx_obs.roundtrip.val # idx_obs.ver
    /\ index.predicted[idx_obs.id] = Some(idx_obs.ver)

C12_ResolverTotal ==
    /\ crashed # "UnreachableResolve"
    /\ \A id \in Ids :
         (\/ index.predicted[id] # None
          \/ index.unconfirmed[id] # None
          \/ index.confirmed[id] # None) => resolve_source_state(id, index) # None

\* C13: after eliminate of an entity of id no predicted, unconfirmed or
\* confirmed entry references id, and the resolver returns None for id until
\* a later put for id.
C13_EliminateClears ==
    /\ idx_obs.op = "eliminate" =>
         /\ index.predicted[idx_obs.id] = None
         /\ index.unconfirmed[idx_obs.id] = None
         /\ index.confirmed[idx_obs.id] = None
    /\ idx_obs.eliminated => resolve_source_state(idx_obs.id, index) = None

C30_PredictedRewound ==
    (idx_obs.op = "invalidate" /\ idx_obs.prev # None) =>
        /\ index.predicted[idx_obs.id] = idx_obs.prev
        /\ index.state[idx_obs.prev.val] # None =>
             resolve_source_state(idx_obs.id, index) = index.state[idx_obs.prev.val]

\* C31: invalidate(v, id) where v has no predecessor link raises no error and
\* drops the confirmed index entry of id: get_last_confirmed(id) is None
\* afterwards.
C31_NoPredecessorDropsConfirmed ==
    (idx_obs.op = "invalidate" /\ idx_obs.prev = None) =>
        /\ crashed = "no"
        /\ index.confirmed[idx_obs.id] = None
        /\ get_last_confirmed(index, idx_obs.id) = None

\* an invalidate without a predecessor link dropped a confirmed entry whose
\* state is stored
C31_Witness ==
    /\ idx_obs.op = "invalidate"
    /\ idx_obs.prev = None
    /\ idx_obs.confirmed_before # None
    /\ index.state[idx_obs.confirmed_before.val] # None
    /\ get_last_confirmed(index, idx_obs.id) = None

\* the index entries of id
EntriesOf(ix, id) == <<ix.predicted[id], ix.unconfirmed[id], ix.confirmed[id]>>

\* C40: invalidate(v, id) where v is not a version currently indexed for id
\* (neither its latest predicted, unconfirmed nor confirmed version) leaves the
\* resolved state of id unchanged, and no invalidate or eliminate changes the
\* index entries or the resolved state of any other id.
C40_InvalidateFrame ==
    [][/\ (/\ idx_obs'.op = "invalidate"
           /\ Some(idx_obs'.ver) \notin
                {index.predicted[idx_obs'.id], index.unconfirmed[idx_obs'.id],
                 index.confirmed[idx_obs'.id]}) =>
             resolve_source_state(idx_obs'.id, index')
               = resolve_source_state(idx_obs'.id, index)
       /\ idx_obs'.op \in {"invalidate", "eliminate"} =>
             \A id \in Ids \ {idx_obs'.id} :
                 /\ EntriesOf(index', id) = EntriesOf(index, id)
                 /\ resolve_source_state(id, index')
                      = resolve_source_state(id, index)]_vars

----------------------------------------------------------------------------
(* Claims about the Executor (Spec, SpecStream).                           *)

\* C1: from the poll that emits a recipe for pair p until the poll that takes
\* its feedback, poll_next never calls attempt() on the book of p.
C1_PendingExclusivity ==
    obs.kind = "work" => obs.attempted \cap obs.seen.await = {}

\* C2: while the feedback of the transaction emitted for p has not been
\* taken, no poll emits a second transaction for p.
C2_OneTxUntilFeedback ==
    (obs.kind = "work" /\ obs.result = "ready") => obs.pair \notin obs.seen.await

\* C3: under execution_part_stream at most one transaction awaits feedback,
\* the channel never holds more than one message, and every iteration of the
\* Executor that starts with pending effects finds the feedback ready.
C3_OneInFlight ==
    /\ Len(awaiting) <= 1
    /\ inflight + Len(feedback) <= 1
    /\ (obs.kind # "none" /\ obs.seen.pend) => obs.seen.fb_ready
    /\ (then_fut = "none" /\ pending_effects # None) => Len(feedback) = 1

\* the result of a submission sits on the channel and the Executor is next
C3_Witness ==
    /\ then_fut = "none"
    /\ pending_effects # None
    /\ feedback = <<"Err">>
    /\ inflight = 0

\* C4: a ready feedback for pending effects is handled before any upstream
\* update is ingested, and a ready upstream update is ingested before
\* attempt() is called on any pair.
C4_PollPriority ==
    /\ obs.kind = "ingest" => ~(obs.seen.pend /\ obs.seen.fb_ready)
    /\ obs.kind = "work" =>
         /\ ~obs.seen.up_ready
         /\ ~(obs.seen.pend /\ obs.seen.fb_ready)

\* feedback was handled while an upstream update was ready too
C4_Witness ==
    /\ obs.kind \in {"feedback_ok", "feedback_err"}
    /\ obs.seen.up_ready
    /\ up_ready

\* C5: a feedback Ok taken with pending_effects = (p, effects) applies every
\* effect as an unconfirmed state (stored in the index, the cache holding the
\* resolved state of its id), calls on_recipe_succeeded exactly once, on the
\* book of p, and leaves pending_effects None.
C5_FeedbackOkCommits ==
    obs.kind = "feedback_ok" =>
        /\ \A i \in DOMAIN obs.effects :
             LET e == obs.effects[i] IN
             /\ Call("put_unconfirmed", version(e)) \in RangeOf(obs.calls)
             /\ index.state[version(e)] = Some(e)
             /\ index.unconfirmed[stable_id(e)] = Some(version(e))
             /\ resolve_source_state(stable_id(e), index) # None
             /\ cache[stable_id(e)] =
                  Some(Bundled(resolve_source_state(stable_id(e), index).val))
        /\ Cardinality({i \in DOMAIN obs.calls :
                          obs.calls[i].op = "on_recipe_succeeded"}) = 1
        /\ Call("on_recipe_succeeded", obs.pair) \in RangeOf(obs.calls)
        /\ multi_book[obs.pair].taken = {}
        /\ pending_effects = None

\* a feedback Ok committed two effects
C5_Witness ==
    /\ obs.kind = "feedback_ok"
    /\ Len(obs.effects) = 2
    /\ pending_effects = None

\* C6: a feedback Err taken with pending_effects = (p, effects) calls
\* on_recipe_failed on the book of p, leaves index and cache unchanged and
\* pending_effects None, does not stop the executor, and leaves p in focus_set.
C6_FeedbackErrRequeues ==
    obs.kind = "feedback_err" =>
        /\ Call("on_recipe_failed", obs.pair) \in RangeOf(obs.calls)
        /\ ~obs.changed
        /\ pending_effects = None
        /\ crashed = "no"
        /\ obs.pair \in focus_set

\* C7: for every stable id the cache holds exactly the resolved state of the
\* id, and nothing for an id the index no longer resolves.
C7_CacheIsAuthoritative ==
    \A id \in Ids :
        cache[id] = IF resolve_source_state(id, index) = None THEN None
                    ELSE Some(Bundled(resolve_source_state(id, index).val))

\* C8: every target of a recipe returned by attempt() has a cache entry, and
\* link_recipe never panics with a missing bearer.
C8_RecipeTargetsCached ==
    /\ crashed # "MissingBearer"
    /\ (obs.kind = "work" /\ obs.result # "pending") =>
         /\ \A i \in DOMAIN obs.recipe : cache[stable_id(obs.recipe[i].target)] # None
         /\ Len(obs.linked) = Len(obs.recipe)

\* a recipe was linked after a feedback had moved the cache entry of one of
\* its targets to a later version: the bearer comes from the cache
C8_Witness ==
    /\ obs.kind = "work"
    /\ obs.result = "ready"
    /\ \E i \in DOMAIN obs.linked :
         obs.linked[i].bearer # version(obs.linked[i].target)

----------------------------------------------------------------------------
(* Claims about TemporalLiquidityBook::attempt (SpecBook).                 *)

\* the fragment steps of the record of an attempt
FragmentSteps(steps) == {i \in DOMAIN steps : steps[i].kind = "fragment"}

\* the total cost_hint of the counterpart fragments try_pick chose
RECURSIVE ChosenCost(_)
ChosenCost(steps) ==
    IF steps = <<>> THEN 0
    ELSE (IF Head(steps).kind = "fragment" THEN Head(steps).counterpart.cost_hint ELSE 0)
         + ChosenCost(Tail(steps))

\* the total cost_hint of the fragments a recipe names
RECURSIVE RecipeCost(_)
RecipeCost(terminal) ==
    IF terminal = <<>> THEN 0
    ELSE (IF Head(terminal).tag = "Fill" THEN Head(terminal).target.cost_hint ELSE 0)
         + RecipeCost(Tail(terminal))

\* C15: attempt() returns Some(recipe) only when the recipe is complete, i.e.
\* its remainder is None and it holds at least 2 instructions; when the
\* fragment store offers no fragment it returns None.
C15_CompleteOrNone ==
    att.called =>
        /\ att.result # None =>
             /\ att.result.val.remainder = None
             /\ Len(att.result.val.terminal) >= 2
        /\ att.before.fragmented_liquidity = {} => att.result = None

\* a recipe assembled from the first fragment and two counterparts was returned
C15_Witness ==
    /\ att.called
    /\ att.result # None
    /\ Len(att.steps) >= 2

\* C16: across the loop of attempt() the budget starts at hard, never
\* increases and never underflows, and a recipe is returned only if the total
\* cost_hint of the counterpart fragments chosen by try_pick is <= hard.
C16_BudgetMonotone ==
    (att.called /\ att.picked # None) =>
        /\ \A i \in DOMAIN att.steps :
             /\ att.steps[i].left_before =
                  IF i = 1 THEN att.before.execution_cap.hard
                  ELSE att.steps[i - 1].left_after
             /\ att.steps[i].left_after <= att.steps[i].left_before
             /\ att.steps[i].left_after >= 0
        /\ att.result # None => ChosenCost(att.steps) <= att.before.execution_cap.hard

\* a recipe was returned after two counterpart fragments were paid for
C16_Witness ==
    /\ att.called
    /\ att.result # None
    /\ Cardinality(FragmentSteps(att.steps)) >= 2
    /\ ChosenCost(att.steps) >= 2

\* C17: for every recipe returned by attempt() the total cost_hint over all
\* fragments that appear in the recipe is <= the hard cap.
C17_RecipeCostWithinHard ==
    (att.called /\ att.result # None) =>
        RecipeCost(att.result.val.terminal) <= att.before.execution_cap.hard

\* C18: a fragment-vs-fragment step is never taken in an iteration where the
\* remaining budget is <= hard - soft.
C18_SafeThreshold ==
    att.called =>
        \A i \in FragmentSteps(att.steps) :
            att.steps[i].left_before >
                att.before.execution_cap.hard - att.before.execution_cap.soft

\* a fragment step was taken above a positive threshold, and the loop then
\* stopped with the budget at or below the threshold while a remainder stayed
C18_Witness ==
    /\ att.called
    /\ ~att.panic
    /\ att.before.execution_cap.hard > att.before.execution_cap.soft
    /\ FragmentSteps(att.steps) # {}
    /\ att.acc # None
    /\ att.acc.val.remainder # None
    /\ att.steps[Len(att.steps)].left_after <=
         att.before.execution_cap.hard - att.before.execution_cap.soft

\* C19: every counterpart chosen in attempt() overlaps the price of the
\* remainder at the time it is chosen: a fragment by its price, a pool by its
\* real_price for the remainder's side and remaining_input.
C19_PriceOverlap ==
    att.called =>
        \A i \in DOMAIN att.steps :
            LET s == att.steps[i] IN
            overlaps(s.rem.side, s.rem.target.price,
                     IF s.kind = "fragment" THEN s.counterpart.price
                     ELSE real_price(s.counterpart, s.rem.side, s.rem.remaining_input))

\* an attempt chose a fragment and then a pool
C19_Witness ==
    /\ att.called
    /\ \E i, j \in DOMAIN att.steps :
         att.steps[i].kind = "fragment" /\ att.steps[j].kind = "pool"

\* C20: if attempt() returns None after having picked fragments or pools, the
\* fragment store and the pool store (with its quality index) equal their
\* state at entry, also when counterpart fragments were consumed before the
\* recipe failed.
C20_DisassemblyRestores ==
    (att.called /\ ~att.panic /\ att.picked # None /\ att.result = None) =>
        /\ tlb.fragmented_liquidity = att.before.fragmented_liquidity
        /\ tlb.pooled_liquidity = att.before.pooled_liquidity

\* an attempt failed after a counterpart fragment had been consumed
C20_Witness ==
    /\ att.called
    /\ ~att.panic
    /\ att.result = None
    /\ Len(att.steps) >= 1
    /\ tlb = att.before

\* the side an instruction executes on: a Fill on the side of its fragment, a
\* Swap as the counterparty of the side it serves
InstructionSide(i) == IF i.tag = "Fill" THEN i.side ELSE not_side(i.side)

\* C21: in every recipe returned by attempt() the instructions alternate
\* strictly between the two sides of the pair in execution order, also when
\* one remainder is filled against several counterpart fragments.
C21_SidesAlternate ==
    (att.called /\ att.result # None) =>
        LET t == att.result.val.terminal IN
        \A i \in 1..(Len(t) - 1) : InstructionSide(t[i]) # InstructionSide(t[i + 1])

\* the fragments that are targets of Fill instructions, in order
FillTargets(terminal) ==
    SelectSeq([i \in DOMAIN terminal |->
                  IF terminal[i].tag = "Fill" THEN Some(terminal[i].target) ELSE None],
              LAMBDA x : x # None)

\* C22: no fragment appears twice in a recipe returned by attempt(): every
\* fragment is the target of at most one Fill instruction.
C22_NoFragmentTwice ==
    (att.called /\ att.result # None) =>
        LET f == FillTargets(att.result.val.terminal) IN
        \A i, j \in DOMAIN f : f[i] = f[j] => i = j

\* a recipe was returned in which two consecutive Fill instructions are on
\* the same side: one remainder was filled against two counterparts
C21_SameSideFills ==
    /\ att.called
    /\ att.result # None
    /\ \E i \in 1..(Len(att.result.val.terminal) - 1) :
         LET t == att.result.val.terminal IN
         t[i].tag = "Fill" /\ t[i + 1].tag = "Fill" /\ t[i].side = t[i + 1].side

\* a recipe with three Fill instructions was returned
C22_Witness ==
    /\ att.called
    /\ att.result # None
    /\ Len(FillTargets(att.result.val.terminal)) >= 3

----------------------------------------------------------------------------
(* Claims about fill_from_fragment (SpecFill).                             *)

\* a call of fill_from_fragment was made
FragmentCall == call.op = "fill_from_fragment"

\* the side whose fee is the higher one, the target on equal fees
FavouredSide(target, source) ==
    IF target.target.fee >= source.fee THEN target.side ELSE not_side(target.side)

\* supply and demand in base units at price p, as section 4.3.1 defines them
SupplyOf(target, source) ==
    IF target.side = "Bid" THEN source.input ELSE target.remaining_input

DemandOf(target, source, p) ==
    IF target.side = "Bid" THEN (target.remaining_input * p[2]) \div p[1]
    ELSE (source.input * p[2]) \div p[1]

\* C23: the crossing price favours the side with the higher fee (the target
\* on equal fees): the lower of the two prices when that side is the Bid, the
\* higher when it is the Ask; i.e. for a Bid target min if target.fee >=
\* source.fee and max otherwise, for an Ask target max if target.fee >=
\* source.fee and min otherwise.
C23_CrossingPrice ==
    FragmentCall =>
        LET t == call.target
            s == call.source
            p == call.out.price
        IN /\ p \in {s.price, t.target.price}
           /\ IF FavouredSide(t, s) = "Bid"
              THEN price_le(p, s.price) /\ price_le(p, t.target.price)
              ELSE price_le(s.price, p) /\ price_le(t.target.price, p)
           /\ (t.side = "Bid" /\ t.target.fee >= s.fee) => p = price_min(s.price, t.target.price)
           /\ (t.side = "Bid" /\ t.target.fee < s.fee) => p = price_max(s.price, t.target.price)
           /\ (t.side = "Ask" /\ t.target.fee >= s.fee) => p = price_max(s.price, t.target.price)
           /\ (t.side = "Ask" /\ t.target.fee < s.fee) => p = price_min(s.price, t.target.price)

\* the unit test prefer_fragment_with_better_fee: the Bid pays the higher fee
\* and both are filled at the price of the Ask
C23_Witness ==
    /\ FragmentCall
    /\ call.target = PartialFill_new(Fragment(21, "Ask", 1000, <<36, 100>>, 1, 100))
    /\ call.source = Fragment(22, "Bid", 360, <<37, 100>>, 2, 100)
    /\ call.out.price = <<36, 100>>
    /\ call.out.either = "Left"

\* C24: for both Bid and Ask targets, whenever supply_base > demand_base the
\* target is returned fully filled as a Fill and the source becomes the
\* PartialFill, with remaining_input = supply - demand and accumulated_output
\* = the target's remaining_input.
C24_SupplyExceedsDemand ==
    (FragmentCall
     /\ SupplyOf(call.target, call.source)
          > DemandOf(call.target, call.source, call.out.price)) =>
        /\ call.out.lt.tag = "Fill"
        /\ call.out.lt.target = call.target.target
        /\ call.out.either = "Right"
        /\ call.out.rt.target = call.source
        /\ call.out.rt.remaining_input =
             SupplyOf(call.target, call.source)
               - DemandOf(call.target, call.source, call.out.price)
        /\ call.out.rt.accumulated_output = call.target.remaining_input

\* C24 amended: for a Bid target, whenever supply_base > demand_base the
\* target is returned fully filled as a Fill and the source (the Ask) becomes
\* the PartialFill, with remaining_input = supply - demand and
\* accumulated_output = the target's remaining_input.
C24_BidTargetSupplyExceedsDemand ==
    (FragmentCall
     /\ call.target.side = "Bid"
     /\ SupplyOf(call.target, call.source)
          > DemandOf(call.target, call.source, call.out.price)) =>
        /\ call.out.lt.tag = "Fill"
        /\ call.out.lt.target = call.target.target
        /\ call.out.lt.output =
             call.target.accumulated_output
               + DemandOf(call.target, call.source, call.out.price)
        /\ call.out.either = "Right"
        /\ call.out.rt.side = "Ask"
        /\ call.out.rt.target = call.source
        /\ call.out.rt.remaining_input =
             SupplyOf(call.target, call.source)
               - DemandOf(call.target, call.source, call.out.price)
        /\ call.out.rt.accumulated_output = call.target.remaining_input

\* a Bid target was filled by a larger Ask at a price other than 1
C24_Witness ==
    /\ FragmentCall
    /\ call.target.side = "Bid"
    /\ call.out.price # <<1, 1>>
    /\ call.out.either = "Right"
    /\ call.out.rt.side = "Ask"
    /\ call.out.rt.remaining_input >= 1
    /\ call.out.lt.output >= 2

\* C25: whenever supply_base = demand_base at the selected crossing price both
\* parties terminate as Fills and no PartialFill remains; for an Ask target the
\* Ask's output equals the Bid's input and the Bid's output equals the Ask's
\* remaining input.
C25_SupplyEqualsDemand ==
    (FragmentCall
     /\ SupplyOf(call.target, call.source)
          = DemandOf(call.target, call.source, call.out.price)) =>
        /\ call.out.either = "Left"
        /\ call.out.lt.tag = "Fill"
        /\ call.out.rt.tag = "Fill"
        /\ call.target.side = "Ask" =>
             /\ call.out.lt.target = call.target.target
             /\ call.out.lt.output = call.source.input
             /\ call.out.rt.target = call.source
             /\ call.out.rt.output = call.target.remaining_input

\* C25 amended: whenever supply_base = demand_base both parties terminate as
\* Fills and no PartialFill remains; for an Ask target the Ask's output is its
\* accumulated_output plus the Bid's input (the Bid's input for a fresh
\* target) and the Bid's output equals the Ask's remaining input.
C25_BothTerminate ==
    (FragmentCall
     /\ SupplyOf(call.target, call.source)
          = DemandOf(call.target, call.source, call.out.price)) =>
        /\ call.out.either = "Left"
        /\ call.out.lt.tag = "Fill"
        /\ call.out.rt.tag = "Fill"
        /\ call.out.lt.target = call.target.target
        /\ call.out.rt.target = call.source
        /\ call.target.side = "Ask" =>
             /\ call.out.lt.output = call.target.accumulated_output + call.source.input
             /\ call.target.accumulated_output = 0 =>
                  call.out.lt.output = call.source.input
             /\ call.out.rt.output = call.target.remaining_input

\* the unit test fill_fragment_from_fragment: an Ask of 1000 at 37/100 meets a
\* Bid of 370
C25_Witness ==
    /\ FragmentCall
    /\ call.target = PartialFill_new(Fragment(21, "Ask", 1000, <<37, 100>>, 1, 100))
    /\ call.source = Fragment(22, "Bid", 370, <<37, 100>>, 1, 100)
    /\ call.out.either = "Left"
    /\ call.out.lt.output = 370
    /\ call.out.rt.output = 1000

\* C26: with an Ask target and a Bid source whose demand
\* floor(bid.input * denom / numer) is less than the Ask's remaining_input, the
\* Bid is returned as a Fill with output equal to that demand, and the Ask
\* stays a PartialFill whose accumulated_output grows by bid.input and whose
\* remaining_input shrinks by that demand.
C26_AskTargetPartial ==
    (FragmentCall
     /\ call.target.side = "Ask"
     /\ DemandOf(call.target, call.source, call.out.price)
          < call.target.remaining_input) =>
        LET demand == DemandOf(call.target, call.source, call.out.price) IN
        /\ call.out.lt.tag = "Fill"
        /\ call.out.lt.side = "Bid"
        /\ call.out.lt.target = call.source
        /\ call.out.lt.output = demand
        /\ call.out.either = "Right"
        /\ call.out.rt.side = "Ask"
        /\ call.out.rt.target = call.target.target
        /\ call.out.rt.accumulated_output =
             call.target.accumulated_output + call.source.input
        /\ call.out.rt.remaining_input = call.target.remaining_input - demand

\* the unit test fill_fragment_from_fragment_partial: an Ask of 1000 at 37/100
\* meets a Bid of 210
C26_Witness ==
    /\ FragmentCall
    /\ call.target = PartialFill_new(Fragment(21, "Ask", 1000, <<37, 100>>, 1, 100))
    /\ call.source = Fragment(22, "Bid", 210, <<37, 100>>, 1, 100)
    /\ call.out.lt.output = 567
    /\ call.out.rt.remaining_input = 433
    /\ call.out.rt.accumulated_output = 210

\* what a call of fill_from_fragment did to the party on `side`: the input it
\* consumed and the output it credited
PartyBefore(side) ==
    IF call.target.side = side
    THEN [input |-> call.target.remaining_input, output |-> call.target.accumulated_output]
    ELSE [input |-> call.source.input, output |-> 0]

PartyAfter(side) ==
    IF call.out.lt.side = side
    THEN [input |-> 0, output |-> call.out.lt.output]
    ELSE IF call.out.either = "Left"
    THEN [input |-> 0, output |-> call.out.rt.output]
    ELSE [input |-> call.out.rt.remaining_input,
          output |-> call.out.rt.accumulated_output]

Consumed(side) == PartyBefore(side).input - PartyAfter(side).input

Credited(side) == PartyAfter(side).output - PartyBefore(side).output

\* C27: for each fill_from_fragment step, in all three cases and for both
\* target sides, value is conserved at the crossing price p (quote per base):
\* the quote credited to the Ask party is at most its consumed base times p and
\* the base credited to the Bid party is at most its consumed quote divided by
\* p, each within a truncation error of one unit (of either asset).
C27_ValueConserved ==
    (FragmentCall /\ ~call.out.overflow) =>
        LET n == call.out.price[1]
            d == call.out.price[2]
        IN /\ Credited("Ask") * d <= (Consumed("Ask") + 1) * n + d
           /\ Credited("Bid") * n <= (Consumed("Bid") + 1) * d + n

----------------------------------------------------------------------------
(* Claims about fill_from_pool and the pool store.                         *)

\* C28: fill_from_pool always fully terminates the target: the Swap has input
\* = the target's whole remaining_input, side = the target's side and output =
\* pool.output(side, input), and the returned Fill is the target with
\* accumulated_output increased by exactly the Swap's output; after a pool
\* step in attempt() the recipe has no remainder.
C28_PoolTerminates ==
    att.called =>
        \A i \in DOMAIN att.steps :
            att.steps[i].kind = "pool" =>
                LET step == att.steps[i]
                    t == att.acc.val.terminal
                    k == Len(t)
                IN /\ i = Len(att.steps)
                   /\ att.acc.val.remainder = None
                   /\ k >= 2
                   /\ t[k - 1].tag = "Swap"
                   /\ t[k - 1].target = step.counterpart
                   /\ t[k - 1].side = step.rem.side
                   /\ t[k - 1].input = step.rem.remaining_input
                   /\ t[k - 1].output =
                        pool_output(step.counterpart, step.rem.side, step.rem.remaining_input)
                   /\ t[k] = Fill_new(step.rem.side, step.rem.target,
                                      step.rem.accumulated_output + t[k - 1].output)

\* a pool absorbed what a fragment step had left of the target, with a
\* positive output
C28_Witness ==
    /\ att.called
    /\ att.result # None
    /\ Len(att.steps) >= 2
    /\ att.steps[Len(att.steps)].kind = "pool"
    /\ att.steps[Len(att.steps)].rem.accumulated_output > 0
    /\ att.result.val.terminal[Len(att.result.val.terminal) - 1].output > 0

\* C29: update_pool(p) is an upsert that rebuilds the quality index entry: for
\* every store state, including one that holds no pool with p's source,
\* afterwards pools[p.source] = p and the quality index maps p.quality() to
\* p.source, so best_price() is Some and try_pick can return p.
C29_UpdatePoolUpserts ==
    call.op = "update_pool" =>
        LET ps == tlb.pooled_liquidity
            pl == call.pool.val
        IN /\ ps.pools[pl.source] = Some(pl)
           /\ [q |-> quality(pl), source |-> pl.source] \in ps.quality_index
           /\ pool_best_price(ps) # None
           /\ pool_try_pick(ps, accepts(ps, {pl})).pool = Some(pl)

\* C33: in every iteration of the loop of attempt() the fragment price that
\* is compared with the best pool price is best_price of the side opposite to
\* the current remainder, also after the remainder has switched to the other
\* side than the fragment picked first.
C33_BestPriceOppositeOfRemainder ==
    att.called =>
        \A i \in DOMAIN att.steps :
            att.steps[i].asked_side = not_side(att.steps[i].rem.side)

\* C36: in the supply_base < demand_base case of fill_from_fragment, for both
\* target sides and every price, quote_executed is at most the remaining input
\* of the party that stays partial: the u64 subtraction never underflows and
\* the resulting PartialFill has a smaller, non-negative remaining_input.
C36_NoUnderflow ==
    (FragmentCall
     /\ SupplyOf(call.target, call.source)
          < DemandOf(call.target, call.source, call.out.price)) =>
        LET bid_input == IF call.target.side = "Bid" THEN call.target.remaining_input
                         ELSE call.source.input
        IN /\ ~call.out.overflow
           /\ call.out.either = "Right"
           /\ call.out.rt.side = "Bid"
           /\ call.out.rt.remaining_input >= 0
           /\ call.out.rt.remaining_input < bid_input

\* C37: after any sequence of update_pool, try_pick and return_pool the
\* quality index and the pool map agree: every pool in the map has exactly one
\* index entry, carrying its current quality; every index entry names a source
\* present in the map; and best_price() is the price hint of the best pool in
\* the store, None iff the store is empty.
C37_IndexAgreesWithMap ==
    LET ps == tlb.pooled_liquidity
        held == stored_pools(ps)
    IN /\ \A pl \in held :
            {e \in ps.quality_index : e.source = pl.source}
              = {[q |-> quality(pl), source |-> pl.source]}
       /\ \A e \in ps.quality_index : ps.pools[e.source] # None
       /\ (pool_best_price(ps) = None) <=> (held = {})
       /\ held # {} =>
            \E pl \in held :
                /\ pool_best_price(ps) = Some(quality(pl).price)
                /\ \A other \in held : ~quality_lt(quality(other), quality(pl))

----------------------------------------------------------------------------
(* Claims about Executor::sync_book and link_recipe (SpecSync, Spec).      *)

\* the last sync_book got a Both(old, new) diff whose old is `old_pool` and
\* whose new is `new_pool` (TRUE: a pool, FALSE: an order)
CrossKindDiff(old_pool, new_pool) ==
    /\ call.op = "sync_book"
    /\ call.diff # None
    /\ call.diff.val.tag = "Both"
    /\ is_pool(call.diff.val.left.val) = old_pool
    /\ is_pool(call.diff.val.right.val) = new_pool

\* C34: sync_book rejects every Both(old, new) diff whose old and new are of
\* different kinds, fragment to pool as well as pool to fragment: it reaches
\* the unreachable branch and makes no update to the book.
C34_CrossKindRejected ==
    (CrossKindDiff(FALSE, TRUE) \/ CrossKindDiff(TRUE, FALSE)) =>
        /\ crashed = "UnreachableDiff"
        /\ multi_book[call.pair] = call.book_before

\* C35: link_recipe returns the input recipe linked: the same number of
\* instructions, in the same execution order, each carrying the bearer cached
\* under the stable id of its target.
C35_LinkedSameOrder ==
    (obs.kind = "work" /\ obs.result = "ready") =>
        /\ Len(obs.linked) = Len(obs.recipe)
        /\ \A i \in DOMAIN obs.recipe :
             /\ obs.linked[i].tag = obs.recipe[i].tag
             /\ obs.linked[i].target = obs.recipe[i].target
             /\ obs.linked[i].bearer = cache[stable_id(obs.recipe[i].target)].val.bearer

\* C38: under any poll schedule and feedback delay every feedback result
\* taken from the channel is applied to the pending effects of the transaction
\* whose submission produced it: no transaction is emitted over pending
\* effects whose feedback was not processed, the pending effects are those of
\* the one transaction awaiting feedback, and no feedback message stays on the
\* channel without pending effects to apply it to.
C38_FeedbackMatchesEffects ==
    /\ (obs.kind = "work" /\ obs.result = "ready") => ~obs.seen.pend
    /\ Len(awaiting) <= 1
    /\ (pending_effects # None) <=> (Len(awaiting) = 1)
    /\ pending_effects # None => pending_effects.val.pair = awaiting[1]
    /\ feedback # <<>> => pending_effects # None

\* C39: under fair polling every pair inserted into focus_set is eventually
\* passed to attempt(), whatever upstream delivers and whatever other pairs
\* are in focus_set (as long as the executor has not panicked); and a pair
\* leaves focus_set only in a work iteration whose attempt() on it returned
\* None.
C39_FocusEventuallyAttempted ==
    /\ \A p \in Pairs :
         (p \in focus_set /\ crashed = "no")
            ~> ((obs.kind = "work" /\ p \in obs.attempted) \/ crashed # "no")
    /\ [][\A p \in Pairs :
            (p \in focus_set /\ p \notin focus_set') =>
                /\ obs'.kind = "work"
                /\ p \in obs'.attempted
                /\ obs'.pair # p]_vars

----------------------------------------------------------------------------
(* Claims about PairId (SpecPair).                                         *)

\* C32: PairId::canonical is symmetric, canonical(a, b) = canonical(b, a)
\* for all asset classes a and b, and its components are in ascending order.
C32_CanonicalSymmetric ==
    call.op = "canonical" =>
        /\ call.out = PairId_canonical(call.y, call.x)
        /\ ~asset_lt(call.out[2], call.out[1])
        /\ {call.out[1], call.out[2]} = {call.x, call.y}

\* canonical was given two different tokens in descending order and swapped them
C32_Witness ==
    /\ call.op = "canonical"
    /\ asset_lt(call.y, call.x)
    /\ call.y[1] = 1
    /\ call.out = <<call.y, call.x>>

====
